---- MODULE Spec2Model ----
(***************************************************************************)
(* Provider abstraction and resolution subsystem of the Xyzulu CLI:        *)
(* the ProviderRegistry, the ConfigManager (Configuration Store) and the   *)
(* provider resolver (resolveProvider / registerConfiguredProviders).      *)
(*                                                                         *)
(* A JavaScript string is a TLA+ string; Spelling gives the characters of  *)
(* every string the model uses, and toLowerCase, trim, startsWith, length  *)
(* and the key regular expression are computed on those characters, as    *)
(* the code computes them.  Objects that the code shares by reference      *)
(* (ProviderConfig objects, provider instances) live at addresses, so      *)
(* that aliasing is visible.                                               *)
(***************************************************************************)
EXTENDS Integers, Sequences, FiniteSets, TLC

(***************************************************************************)
(* Strings.                                                                *)
(***************************************************************************)
Spelling ==
  ("" :> <<>>) @@
  ("  " :> <<" ", " ">>) @@
  ("qwen" :> <<"q", "w", "e", "n">>) @@
  ("openai" :> <<"o", "p", "e", "n", "a", "i">>) @@
  ("anthropic" :> <<"a", "n", "t", "h", "r", "o", "p", "i", "c">>) @@
  ("custom" :> <<"c", "u", "s", "t", "o", "m">>) @@
  ("QWEN" :> <<"Q", "W", "E", "N">>) @@
  ("qwen-turbo" :> <<"q", "w", "e", "n", "-", "t", "u", "r", "b", "o">>) @@
  ("qwen-plus" :> <<"q", "w", "e", "n", "-", "p", "l", "u", "s">>) @@
  ("qwen-max" :> <<"q", "w", "e", "n", "-", "m", "a", "x">>) @@
  ("qwen-max-longcontext" :> <<"q", "w", "e", "n", "-", "m", "a", "x", "-", "l", "o", "n", "g", "c", "o", "n", "t", "e", "x", "t">>) @@
  ("gpt-4o" :> <<"g", "p", "t", "-", "4", "o">>) @@
  ("gpt-4-turbo" :> <<"g", "p", "t", "-", "4", "-", "t", "u", "r", "b", "o">>) @@
  ("gpt-4" :> <<"g", "p", "t", "-", "4">>) @@
  ("gpt-3.5-turbo" :> <<"g", "p", "t", "-", "3", ".", "5", "-", "t", "u", "r", "b", "o">>) @@
  ("claude-3-opus" :> <<"c", "l", "a", "u", "d", "e", "-", "3", "-", "o", "p", "u", "s">>) @@
  ("claude-3-sonnet" :> <<"c", "l", "a", "u", "d", "e", "-", "3", "-", "s", "o", "n", "n", "e", "t">>) @@
  ("claude-3-haiku" :> <<"c", "l", "a", "u", "d", "e", "-", "3", "-", "h", "a", "i", "k", "u">>) @@
  ("claude-3-5-sonnet" :> <<"c", "l", "a", "u", "d", "e", "-", "3", "-", "5", "-", "s", "o", "n", "n", "e", "t">>) @@
  ("GPT-4O" :> <<"G", "P", "T", "-", "4", "O">>) @@
  ("nosuch" :> <<"n", "o", "s", "u", "c", "h">>) @@
  ("constructor" :> <<"c", "o", "n", "s", "t", "r", "u", "c", "t", "o", "r">>) @@
  ("sk-" :> <<"s", "k", "-">>) @@
  ("sk-ant-" :> <<"s", "k", "-", "a", "n", "t", "-">>) @@
  ("sk-abc" :> <<"s", "k", "-", "a", "b", "c">>) @@
  ("sk-a\nb" :> <<"s", "k", "-", "a", "\n", "b">>) @@
  ("sk-c\nd" :> <<"s", "k", "-", "c", "\n", "d">>) @@
  ("sk abc" :> <<"s", "k", " ", "a", "b", "c">>) @@
  ("sk-openai-key" :> <<"s", "k", "-", "o", "p", "e", "n", "a", "i", "-", "k", "e", "y">>) @@
  ("sk-qwen-key" :> <<"s", "k", "-", "q", "w", "e", "n", "-", "k", "e", "y">>) @@
  ("sk-ant-test-key-1" :> <<"s", "k", "-", "a", "n", "t", "-", "t", "e", "s", "t", "-", "k", "e", "y", "-", "1">>) @@
  ("provider1" :> <<"p", "r", "o", "v", "i", "d", "e", "r", "1">>) @@
  ("provider2" :> <<"p", "r", "o", "v", "i", "d", "e", "r", "2">>) @@
  ("model1" :> <<"m", "o", "d", "e", "l", "1">>) @@
  ("model2" :> <<"m", "o", "d", "e", "l", "2">>) @@
  ("model3" :> <<"m", "o", "d", "e", "l", "3">>) @@
  ("apiKey" :> <<"a", "p", "i", "K", "e", "y">>) @@
  ("qwen.apiKey" :> <<"q", "w", "e", "n", ".", "a", "p", "i", "K", "e", "y">>) @@
  ("openai.apiKey" :> <<"o", "p", "e", "n", "a", "i", ".", "a", "p", "i", "K", "e", "y">>) @@
  ("qwen.baseUrl" :> <<"q", "w", "e", "n", ".", "b", "a", "s", "e", "U", "r", "l">>) @@
  ("baseUrl" :> <<"b", "a", "s", "e", "U", "r", "l">>) @@
  ("defaultProvider" :> <<"d", "e", "f", "a", "u", "l", "t", "P", "r", "o", "v", "i", "d", "e", "r">>) @@
  ("defaultModel" :> <<"d", "e", "f", "a", "u", "l", "t", "M", "o", "d", "e", "l">>)


\* The JavaScript value undefined, where a string is optional.
Undefined == "<undefined>"

\* What a property read on a plain object literal yields for a key the
\* literal does not own but Object.prototype does ("constructor" and
\* "__proto__" are the keys that toLowerCase leaves as they are): a truthy
\* value that is not a string and that names no configuration entry.
ObjectPrototypeMember == "<inherited from Object.prototype>"

ObjectPrototypeKeys == {"constructor", "__proto__"}

UpperCaseLetters == <<"A","B","C","D","E","F","G","H","I","J","K","L","M",
                      "N","O","P","Q","R","S","T","U","V","W","X","Y","Z">>

LowerCaseLetters == <<"a","b","c","d","e","f","g","h","i","j","k","l","m",
                      "n","o","p","q","r","s","t","u","v","w","x","y","z">>

Digits == {"0","1","2","3","4","5","6","7","8","9"}

WhiteSpace == {" ", "\t", "\n"}

Range(s) == {s[i] : i \in DOMAIN s}

chars(s) == Spelling[s]

string(cs) == CHOOSE s \in DOMAIN Spelling : Spelling[s] = cs

\* !s is false: s is a non-empty string (or an object).
Truthy(s) == s # Undefined /\ s # ""

\* The string functions are tabulated once over the strings of Spelling,
\* each entry computed from the characters.
lengthOf == [s \in DOMAIN Spelling |-> Len(chars(s))]

length(s) == lengthOf[s]

LowerCaseChar(c) ==
  IF \E i \in DOMAIN UpperCaseLetters : UpperCaseLetters[i] = c
  THEN LowerCaseLetters[CHOOSE i \in DOMAIN UpperCaseLetters : UpperCaseLetters[i] = c]
  ELSE c

\* The keys of 'config get' and 'config set', which no code lower-cases.
ConfigKeys ==
  {"apiKey", "baseUrl", "qwen.apiKey", "openai.apiKey", "qwen.baseUrl", "defaultProvider",
   "defaultModel"}

toLowerCaseOf ==
  [s \in DOMAIN Spelling \ ConfigKeys |->
     string([i \in DOMAIN chars(s) |-> LowerCaseChar(chars(s)[i])])]

toLowerCase(s) == toLowerCaseOf[s]

RECURSIVE trimStart(_)
trimStart(cs) ==
  IF cs # <<>> /\ Head(cs) \in WhiteSpace THEN trimStart(Tail(cs)) ELSE cs

RECURSIVE trimEnd(_)
trimEnd(cs) ==
  IF cs # <<>> /\ cs[Len(cs)] \in WhiteSpace
  THEN trimEnd(SubSeq(cs, 1, Len(cs) - 1)) ELSE cs

trimOf == [s \in DOMAIN Spelling |-> string(trimEnd(trimStart(chars(s))))]

trim(s) == trimOf[s]

startsWith(s, prefix) ==
  /\ length(s) >= length(prefix)
  /\ SubSeq(chars(s), 1, length(prefix)) = chars(prefix)

\* /^[a-zA-Z0-9_-]+$/
keyPatternOf ==
  [s \in DOMAIN Spelling |->
     /\ Len(chars(s)) >= 1
     /\ \A i \in DOMAIN chars(s) :
          chars(s)[i] \in Range(UpperCaseLetters) \cup Range(LowerCaseLetters)
                          \cup Digits \cup {"_", "-"}]

keyPattern(s) == keyPatternOf[s]

(***************************************************************************)
(* Provider classes: QwenProvider, OpenAIProvider, AnthropicProvider and   *)
(* the MockProvider of the registry tests.                                 *)
(***************************************************************************)
QwenSupportedModels == <<"qwen-turbo", "qwen-plus", "qwen-max", "qwen-max-longcontext">>

OpenAISupportedModels == <<"gpt-4o", "gpt-4-turbo", "gpt-4", "gpt-3.5-turbo">>

AnthropicSupportedModels ==
  <<"claude-3-opus", "claude-3-5-sonnet", "claude-3-sonnet", "claude-3-haiku">>

OpenAIMinKeyLength == 10

AnthropicMinKeyLength == 15

GenericMinKeyLength == 5

\* An optional field of a ProviderConfig is <<>> when absent, <<v>> when set.
Absent == <<>>

Some(v) == <<v>>

\* new ProviderConfig {apiKey: key}
KeyOnlyConfig(key) ==
  [apiKey |-> key, baseUrl |-> Absent, timeout |-> Absent,
   maxRetries |-> Absent, customHeaders |-> Absent]

QwenValidateConfig(cfg) ==
  IF ~Truthy(cfg.apiKey) \/ length(trim(cfg.apiKey)) = 0 THEN FALSE
  ELSE keyPattern(cfg.apiKey)

OpenAIValidateConfig(cfg) ==
  IF ~Truthy(cfg.apiKey) \/ length(trim(cfg.apiKey)) = 0 THEN FALSE
  ELSE startsWith(cfg.apiKey, "sk-") /\ length(cfg.apiKey) > OpenAIMinKeyLength

AnthropicValidateConfig(cfg) ==
  IF ~Truthy(cfg.apiKey) \/ length(trim(cfg.apiKey)) = 0 THEN FALSE
  ELSE startsWith(cfg.apiKey, "sk-ant-") /\ length(cfg.apiKey) > AnthropicMinKeyLength

\* A ProviderConfig object is named by its address; NoAddress is "no object".
NoAddress == <<>>

\* A provider instance: its identity, its class, what its constructor stored
\* (the REFERENCE to the ProviderConfig it was given), and for a MockProvider
\* the constructor arguments name, models, available.
NullProvider ==
  [id |-> <<>>, cls |-> "null", name |-> Undefined, models |-> <<>>,
   available |-> FALSE, config |-> NoAddress]

NewQwenProvider(id, addr) ==
  [id |-> id, cls |-> "QwenProvider", name |-> "qwen",
   models |-> QwenSupportedModels, available |-> FALSE, config |-> addr]

NewOpenAIProvider(id, addr) ==
  [id |-> id, cls |-> "OpenAIProvider", name |-> "openai",
   models |-> OpenAISupportedModels, available |-> FALSE, config |-> addr]

NewAnthropicProvider(id, addr) ==
  [id |-> id, cls |-> "AnthropicProvider", name |-> "anthropic",
   models |-> AnthropicSupportedModels, available |-> FALSE, config |-> addr]

NewMockProvider(id, name, models, available) ==
  [id |-> id, cls |-> "MockProvider", name |-> name, models |-> models,
   available |-> available, config |-> NoAddress]

getName(p) == p.name

getSupportedModels(p) == p.models

\* isAvailable(): validateConfig(this.config), read through the reference.
isAvailable(p, objects) ==
  CASE p.cls = "QwenProvider" -> QwenValidateConfig(objects[p.config])
    [] p.cls = "OpenAIProvider" -> OpenAIValidateConfig(objects[p.config])
    [] p.cls = "AnthropicProvider" -> AnthropicValidateConfig(objects[p.config])
    [] OTHER -> p.available

\* The key a provider puts in its Authorization header: this.config.apiKey.
sentApiKey(p, objects) == objects[p.config].apiKey

(***************************************************************************)
(* State.                                                                  *)
(***************************************************************************)
VARIABLES
  providers,            \* ProviderRegistry.providers: name -> instance
  modelToProvider,      \* ProviderRegistry.modelToProvider: model -> name
  defaultProviderName,  \* ProviderRegistry.defaultProviderName
  config,               \* ConfigManager.config: providers (name -> address),
                        \*   defaultProvider, defaultModel
  heap,                 \* the live ProviderConfig objects: address -> fields
  file,                 \* the persisted configuration document
  result                \* what the last operation returned or threw

registryVars == <<providers, modelToProvider, defaultProviderName>>

configVars == <<config, heap, file>>

vars == <<providers, modelToProvider, defaultProviderName, config, heap, file, result>>

NoError == [type |-> "none", message |-> "none", provider |-> Undefined, available |-> {}]

Error(type, message, provider, available) ==
  [type |-> type, message |-> message, provider |-> provider, available |-> available]

NoResult ==
  [op |-> "none", arg |-> Undefined, key |-> Undefined, status |-> "none",
   value |-> NullProvider, flag |-> FALSE, error |-> NoError, chosen |-> Undefined, constructed |-> 0]

Returned(op, arg, value, flag, chosen, constructed) ==
  [op |-> op, arg |-> arg, key |-> Undefined, status |-> "returned", value |-> value,
   flag |-> flag, error |-> NoError, chosen |-> chosen, constructed |-> constructed]

Threw(op, arg, error, chosen) ==
  [op |-> op, arg |-> arg, key |-> Undefined, status |-> "threw", value |-> NullProvider,
   flag |-> FALSE, error |-> error, chosen |-> chosen, constructed |-> 0]

(***************************************************************************)
(* Object lifetime.  config.providers is a sequence of <<name, address>>   *)
(* pairs (see ConfigManager below).  An address names an object by the     *)
(* role it has: <<name, "bound">> is the object config.providers[name]     *)
(* refers to; <<name, "held">> is an object the configuration referred to  *)
(* under that name and dropped (delete, or a new object assigned) while a  *)
(* provider instance still holds the reference.  The object is the same    *)
(* object before and after it is dropped: its fields move to the "held"    *)
(* address and the holder's reference follows.                             *)
(***************************************************************************)
boundAddress(name) == <<name, "bound">>

heldAddress(name) == <<name, "held">>

entryNames(entries) == {entries[i][1] : i \in DOMAIN entries}

entryAddresses(entries) == {entries[i][2] : i \in DOMAIN entries}

\* The addresses some registered provider instance still holds.
heldAddresses(pv) == {pv[n].config : n \in DOMAIN pv} \ {NoAddress}

\* Objects no longer reachable from the configuration or a provider are gone.
reachable(objects, entries, pv) ==
  [a \in (DOMAIN objects) \cap (entryAddresses(entries) \cup heldAddresses(pv)) |-> objects[a]]

\* The configuration drops its reference to the object bound under name:
\* the holders of that object, and the heap, after it.
holdersAfterDrop(pv, name) ==
  [n \in DOMAIN pv |->
     IF pv[n].config = boundAddress(name)
     THEN [pv[n] EXCEPT !.config = heldAddress(name)] ELSE pv[n]]

heapAfterDrop(objects, pv, name) ==
  IF boundAddress(name) \notin DOMAIN objects THEN objects
  ELSE IF boundAddress(name) \in heldAddresses(pv)
  THEN [a \in (DOMAIN objects \ {boundAddress(name)}) \cup {heldAddress(name)} |->
          IF a = heldAddress(name) THEN objects[boundAddress(name)] ELSE objects[a]]
  ELSE [a \in DOMAIN objects \ {boundAddress(name)} |-> objects[a]]

(***************************************************************************)
(* ProviderRegistry.                                                       *)
(***************************************************************************)
\* Map.set(name, provider)
registerProvider(pv, provider, name) ==
  [n \in DOMAIN pv \cup {name} |-> IF n = name THEN provider ELSE pv[n]]

\* A faulty variant of registerModels: a model that has an owner keeps it.
registerModelsKeepingOwner(m2p, provider, name) ==
  [m \in DOMAIN m2p \cup Range(getSupportedModels(provider)) |->
     IF m \in DOMAIN m2p THEN m2p[m] ELSE name]

\* for (const model of provider.getSupportedModels()) modelToProvider.set(model, name)
registerModels(m2p, provider, name) ==
  [m \in DOMAIN m2p \cup Range(getSupportedModels(provider)) |->
     IF m \in Range(getSupportedModels(provider)) THEN name ELSE m2p[m]]

\* A faulty variant of registerRejects: the name is not trimmed.
registerRejectsEmptyOnly(provider, name) ==
  provider = NullProvider \/ ~Truthy(name)

registerRejects(provider, name) ==
  provider = NullProvider \/ ~Truthy(name) \/ length(trim(name)) = 0

registerError(provider, name) ==
  IF provider = NullProvider
  THEN Error("Error", "Provider cannot be null or undefined", Undefined, {})
  ELSE Error("Error", "Provider name cannot be empty", Undefined, {})

Register(provider, name) ==
  /\ IF registerRejects(provider, name)
     THEN /\ result' = [Threw("register", name, registerError(provider, name), Undefined)
                          EXCEPT !.value = provider]
          /\ UNCHANGED registryVars
     ELSE /\ providers' = registerProvider(providers, provider, name)
          /\ modelToProvider' = registerModels(modelToProvider, provider, name)
          /\ result' = Returned("register", name, provider, FALSE, Undefined, 0)
          /\ UNCHANGED defaultProviderName
  /\ heap' = reachable(heap, config.providers, providers')
  /\ UNCHANGED <<config, file>>

has(name) == name \in DOMAIN providers

\* Map.get on a name -> instance map: NullProvider stands for undefined.
getIn(pv, name) == IF name \in DOMAIN pv THEN pv[name] ELSE NullProvider

get(name) == getIn(providers, name)

getByModelIn(pv, m2p, modelId) ==
  IF modelId \notin DOMAIN m2p THEN NullProvider
  ELSE getIn(pv, m2p[modelId])

getByModel(modelId) == getByModelIn(providers, modelToProvider, modelId)

list == DOMAIN providers

getDefault ==
  IF ~Truthy(defaultProviderName) THEN NullProvider ELSE get(defaultProviderName)

SetDefault(name) ==
  /\ IF ~has(name)
     THEN /\ result' = Threw("setDefault", name,
                             Error("Error", "is not registered", name, {}), Undefined)
          /\ UNCHANGED defaultProviderName
     ELSE /\ defaultProviderName' = name
          /\ result' = Returned("setDefault", name, NullProvider, FALSE, Undefined, 0)
  /\ UNCHANGED <<providers, modelToProvider, configVars>>

\* The model-index entries unregister deletes: those of the removed
\* provider's supported models that still point at name.
unregisterModels(m2p, provider, name) ==
  [m \in {x \in DOMAIN m2p :
            ~(x \in Range(getSupportedModels(provider)) /\ m2p[x] = name)} |-> m2p[m]]

\* A faulty variant of unregisterDefault: the default pointer is left alone.
unregisterDefaultKeeping(default, name) == default

\* if (this.defaultProviderName === name) this.defaultProviderName = undefined
unregisterDefault(default, name) ==
  IF default = name THEN Undefined ELSE default

Unregister(name) ==
  /\ IF ~has(name)
     THEN /\ result' = Returned("unregister", name, NullProvider, FALSE, Undefined, 0)
          /\ UNCHANGED registryVars
     ELSE /\ providers' = [n \in DOMAIN providers \ {name} |-> providers[n]]
          /\ modelToProvider' = unregisterModels(modelToProvider, providers[name], name)
          /\ defaultProviderName' = unregisterDefault(defaultProviderName, name)
          /\ result' = Returned("unregister", name, NullProvider, TRUE, Undefined, 0)
  /\ heap' = reachable(heap, config.providers, providers')
  /\ UNCHANGED <<config, file>>

Clear ==
  /\ providers' = <<>>
  /\ modelToProvider' = <<>>
  /\ defaultProviderName' = Undefined
  /\ result' = Returned("clear", Undefined, NullProvider, FALSE, Undefined, 0)
  /\ heap' = reachable(heap, config.providers, providers')
  /\ UNCHANGED <<config, file>>

(***************************************************************************)
(* ConfigManager (the Configuration Store).                                *)
(*                                                                         *)
(* config.providers is a JavaScript object: its own keys in insertion      *)
(* order, each bound to a reference to a ProviderConfig object.  It is a   *)
(* sequence of <<name, address>> pairs.                                    *)
(***************************************************************************)
hasEntry(entries, name) == name \in entryNames(entries)

entryAddress(entries, name) ==
  entries[CHOOSE i \in DOMAIN entries : entries[i][1] = name][2]

\* The truthiness of providers[name]: an entry of the mapping is an object,
\* and a name the mapping does not own is looked up in Object.prototype.
entryTruthy(entries, name) == hasEntry(entries, name) \/ name \in ObjectPrototypeKeys

\* providers[name] = reference: an existing key keeps its position.
setEntry(entries, name, addr) ==
  IF hasEntry(entries, name)
  THEN [i \in DOMAIN entries |-> IF entries[i][1] = name THEN <<name, addr>> ELSE entries[i]]
  ELSE Append(entries, <<name, addr>>)

\* delete providers[name]
deleteEntry(entries, name) == SelectSeq(entries, LAMBDA e : e[1] # name)

\* The persisted document: JSON.stringify(config) writes the objects' fields.
NoFile == [kind |-> "missing"]

\* JSON.stringify leaves out a property whose value is undefined, and
\* JSON.parse reads a property that is not there as undefined.
stringifyOptional(v) == IF v = Undefined THEN Absent ELSE Some(v)

parseOptional(field) == IF field = Absent THEN Undefined ELSE field[1]

document(cfg, objects) ==
  [kind |-> "multi",
   providers |-> [i \in DOMAIN cfg.providers |->
                    <<cfg.providers[i][1], objects[cfg.providers[i][2]]>>],
   defaultProvider |-> stringifyOptional(cfg.defaultProvider),
   defaultModel |-> stringifyOptional(cfg.defaultModel)]

\* saveConfig: writes the document, or throws when the write fails.
saveConfig(op, arg, key, cfg, objects, writeOk) ==
  IF writeOk
  THEN /\ file' = document(cfg, objects)
       /\ result' = [Returned(op, arg, NullProvider, FALSE, Undefined, 0) EXCEPT !.key = key]
  ELSE /\ file' = file
       /\ result' = [Threw(op, arg, Error("Error", "Failed to save configuration",
                                          Undefined, {}), Undefined) EXCEPT !.key = key]

\* { providers: {} }
EmptyConfig == [providers |-> <<>>, defaultProvider |-> Undefined, defaultModel |-> Undefined]

\* What the constructor leaves: the configuration, its ProviderConfig
\* objects and the file.
Loaded(cfg, objects, f) == [config |-> cfg, objects |-> objects, file |-> f]

\* return parsed as MultiProviderConfig: the entries of the document, each
\* a new object.
parsedConfig(f) ==
  [providers |-> [i \in DOMAIN f.providers |->
                    <<f.providers[i][1], boundAddress(f.providers[i][1])>>],
   defaultProvider |-> parseOptional(f.defaultProvider),
   defaultModel |-> parseOptional(f.defaultModel)]

parsedObjects(f) ==
  [a \in {boundAddress(f.providers[i][1]) : i \in DOMAIN f.providers} |->
     f.providers[CHOOSE i \in DOMAIN f.providers : boundAddress(f.providers[i][1]) = a][2]]

\* migrateOldConfig: a legacy document {apiKey?, defaultModel?}.  The save
\* runs inside loadConfig's try block: when it throws, loadConfig returns
\* the empty configuration.
migrateOldConfig(oldConfig, writeOk) ==
  IF ~Truthy(parseOptional(oldConfig.apiKey))
  THEN Loaded(EmptyConfig, <<>>, oldConfig)
  ELSE LET newConfig ==
             [providers |-> <<<<"qwen", boundAddress("qwen")>>>>,
              defaultProvider |-> "qwen",
              defaultModel |-> IF Truthy(parseOptional(oldConfig.defaultModel))
                               THEN parseOptional(oldConfig.defaultModel) ELSE Undefined]
           objects == (boundAddress("qwen") :> KeyOnlyConfig(parseOptional(oldConfig.apiKey)))
       IN IF writeOk
          THEN Loaded(newConfig, objects, document(newConfig, objects))
          ELSE Loaded(EmptyConfig, <<>>, oldConfig)

\* A faulty variant of loadConfig: a file that cannot be read or parsed is
\* removed.
loadConfigRemovingBadFile(f, writeOk) ==
  CASE f.kind = "missing" -> Loaded(EmptyConfig, <<>>, f)
    [] f.kind \in {"unreadable", "corrupt", "scalar"} -> Loaded(EmptyConfig, <<>>, NoFile)
    [] f.kind = "legacy" -> migrateOldConfig(f, writeOk)
    [] f.kind = "other" -> Loaded(EmptyConfig, <<>>, f)
    [] f.kind = "multi" -> Loaded(parsedConfig(f), parsedObjects(f), f)

\* loadConfig, by what the file holds: nothing ("missing"), bytes that
\* cannot be read ("unreadable"), text that is not JSON ("corrupt"), JSON
\* that is no object ("scalar": the in operator throws), an object with
\* apiKey and without providers ("legacy"), an object with neither
\* ("other"), an object with providers ("multi").
loadConfig(f, writeOk) ==
  CASE f.kind = "missing" -> Loaded(EmptyConfig, <<>>, f)
    [] f.kind \in {"unreadable", "corrupt", "scalar"} -> Loaded(EmptyConfig, <<>>, f)
    [] f.kind = "legacy" -> migrateOldConfig(f, writeOk)
    [] f.kind = "other" -> Loaded(EmptyConfig, <<>>, f)
    [] f.kind = "multi" -> Loaded(parsedConfig(f), parsedObjects(f), f)

\* new ConfigManager(path) in a new process: the configuration is loaded
\* from the file, and the registry of the process is empty.
NewConfigManager(writeOk) ==
  /\ config' = loadConfig(file, writeOk).config
  /\ heap' = loadConfig(file, writeOk).objects
  /\ file' = loadConfig(file, writeOk).file
  /\ providers' = <<>>
  /\ modelToProvider' = <<>>
  /\ defaultProviderName' = Undefined
  /\ result' = Returned("constructor", Undefined, NullProvider, FALSE, Undefined, 0)

getProviderConfigOf(cfg, objects, provider) ==
  IF hasEntry(cfg.providers, provider)
  THEN objects[entryAddress(cfg.providers, provider)]
  ELSE [apiKey |-> Undefined, baseUrl |-> Absent, timeout |-> Absent,
        maxRetries |-> Absent, customHeaders |-> Absent]

getProviderKeyOf(cfg, objects, provider) ==
  getProviderConfigOf(cfg, objects, provider).apiKey

getProviderKey(provider) == getProviderKeyOf(config, heap, provider)

getDefaultProvider == config.defaultProvider

getDefaultModel == config.defaultModel

hasProvider(provider) ==
  hasEntry(config.providers, provider) /\ Truthy(getProviderKey(provider))

\* A faulty variant of assignApiKey: the entry is replaced by {apiKey: key}.
assignApiKeyReplacingEntry(objects, addr, key) ==
  [objects EXCEPT ![addr] = KeyOnlyConfig(key)]

\* The in-place assignment providers[provider].apiKey = key.
assignApiKey(objects, addr, key) ==
  [objects EXCEPT ![addr] = [@ EXCEPT !.apiKey = key]]

SetProviderKey(provider, key, writeOk) ==
  LET entries == config.providers
      cfg1 == IF ~entryTruthy(entries, provider)
              THEN [config EXCEPT !.providers = setEntry(entries, provider, boundAddress(provider))]
              ELSE config
      \* For an inherited name the assignment lands on the member of
      \* Object.prototype, which is no object of the configuration.
      heap1 == IF ~entryTruthy(entries, provider)
               THEN [a \in DOMAIN heap \cup {boundAddress(provider)} |->
                       IF a = boundAddress(provider) THEN KeyOnlyConfig(key) ELSE heap[a]]
               ELSE IF hasEntry(entries, provider)
                    THEN assignApiKey(heap, entryAddress(entries, provider), key)
                    ELSE heap
  IN /\ config' = cfg1
     /\ heap' = heap1
     /\ saveConfig("setProviderKey", provider, key, cfg1, heap1, writeOk)
     /\ UNCHANGED registryVars

SetProviderConfig(provider, fields, writeOk) ==
  LET cfg1 == [config EXCEPT
                 !.providers = setEntry(@, provider, boundAddress(provider))]
      dropped == heapAfterDrop(heap, providers, provider)
      heap1 == [a \in DOMAIN dropped \cup {boundAddress(provider)} |->
                  IF a = boundAddress(provider) THEN fields ELSE dropped[a]]
  IN /\ config' = cfg1
     /\ heap' = heap1
     /\ providers' = holdersAfterDrop(providers, provider)
     /\ saveConfig("setProviderConfig", provider, fields.apiKey, cfg1, heap1, writeOk)
     /\ UNCHANGED <<modelToProvider, defaultProviderName>>

SetDefaultProvider(provider, writeOk) ==
  /\ IF ~entryTruthy(config.providers, provider)
     THEN /\ result' = Threw("setDefaultProvider", provider,
                             Error("Error", "is not configured", provider, {}), Undefined)
          /\ UNCHANGED <<config, file>>
     ELSE /\ config' = [config EXCEPT !.defaultProvider = provider]
          /\ saveConfig("setDefaultProvider", provider, Undefined,
                        [config EXCEPT !.defaultProvider = provider], heap, writeOk)
  /\ UNCHANGED <<heap, registryVars>>

\* A faulty variant of SetDefaultModel: the configuration is saved before
\* the assignment.
SetDefaultModelSavingFirst(model, writeOk) ==
  /\ config' = [config EXCEPT !.defaultModel = model]
  /\ saveConfig("setDefaultModel", model, Undefined, config, heap, writeOk)
  /\ UNCHANGED <<heap, registryVars>>

SetDefaultModel(model, writeOk) ==
  /\ config' = [config EXCEPT !.defaultModel = model]
  /\ saveConfig("setDefaultModel", model, Undefined,
                [config EXCEPT !.defaultModel = model], heap, writeOk)
  /\ UNCHANGED <<heap, registryVars>>

RemoveProvider(provider, writeOk) ==
  LET cfg1 == [config EXCEPT
                 !.providers = deleteEntry(@, provider),
                 !.defaultProvider = IF @ = provider THEN Undefined ELSE @]
      heap1 == heapAfterDrop(heap, providers, provider)
  IN /\ config' = cfg1
     /\ heap' = heap1
     /\ providers' = holdersAfterDrop(providers, provider)
     /\ saveConfig("removeProvider", provider, Undefined, cfg1, heap1, writeOk)
     /\ UNCHANGED <<modelToProvider, defaultProviderName>>

validateProviderKey(provider, key) ==
  IF ~Truthy(key) \/ length(trim(key)) = 0 THEN FALSE
  ELSE CASE toLowerCase(provider) = "qwen" -> keyPattern(key)
         [] toLowerCase(provider) = "openai" ->
              startsWith(key, "sk-") /\ length(key) > OpenAIMinKeyLength
         [] toLowerCase(provider) = "anthropic" ->
              startsWith(key, "sk-ant-") /\ length(key) > AnthropicMinKeyLength
         [] OTHER -> length(key) > GenericMinKeyLength

(***************************************************************************)
(* Provider resolver.                                                      *)
(***************************************************************************)
MODEL_TO_PROVIDER ==
  [m \in Range(QwenSupportedModels) \cup Range(OpenAISupportedModels)
         \cup Range(AnthropicSupportedModels) |->
     IF m \in Range(QwenSupportedModels) THEN "qwen"
     ELSE IF m \in Range(OpenAISupportedModels) THEN "openai"
     ELSE "anthropic"]

\* MODEL_TO_PROVIDER[key]: a property read on an object literal.
tableLookup(key) ==
  IF key \in DOMAIN MODEL_TO_PROVIDER THEN MODEL_TO_PROVIDER[key]
  ELSE IF key \in ObjectPrototypeKeys THEN ObjectPrototypeMember
  ELSE Undefined

resolveProviderName(modelOrProvider) ==
  IF ~Truthy(modelOrProvider) THEN Undefined
  ELSE IF has(modelOrProvider) THEN modelOrProvider
  ELSE IF Truthy(tableLookup(toLowerCase(modelOrProvider)))
       THEN tableLookup(toLowerCase(modelOrProvider))
  ELSE Undefined

Implemented == {"qwen", "openai", "anthropic"}

\* A faulty variant of createProviderInstance: every name gets a QwenProvider.
createProviderInstanceAlwaysQwen(providerName, id, addr) == NewQwenProvider(id, addr)

\* createProviderInstance throws 'Unknown provider' outside these names.
createProviderThrows(providerName) == toLowerCase(providerName) \notin Implemented

createProviderInstance(providerName, id, addr) ==
  CASE toLowerCase(providerName) = "qwen" -> NewQwenProvider(id, addr)
    [] toLowerCase(providerName) = "openai" -> NewOpenAIProvider(id, addr)
    [] toLowerCase(providerName) = "anthropic" -> NewAnthropicProvider(id, addr)

\* The identity of the instance a "new" expression constructs for name while
\* pv is registered: it differs from every instance of pv, and so from the
\* instance it replaces.
newInstanceId(name, pv) ==
  IF name \in DOMAIN pv /\ pv[name].id = <<name, 0>> THEN <<name, 1>> ELSE <<name, 0>>

\* A faulty variant of chooseProviderName: a default without a key gives way
\* to the qwen fallback.
chooseProviderNameSkippingDefault(modelOrProvider) ==
  IF Truthy(modelOrProvider) THEN resolveProviderName(modelOrProvider)
  ELSE IF Truthy(config.defaultProvider) /\ hasProvider(config.defaultProvider)
       THEN config.defaultProvider
  ELSE IF Truthy(getProviderKey("qwen")) THEN "qwen"
  ELSE Undefined

\* Priorities 1 to 3 of resolveProvider: the chosen name, or Undefined.
chooseProviderName(modelOrProvider) ==
  IF Truthy(modelOrProvider) THEN resolveProviderName(modelOrProvider)
  ELSE IF Truthy(config.defaultProvider) THEN config.defaultProvider
  ELSE IF Truthy(getProviderKey("qwen")) THEN "qwen"
  ELSE Undefined

\* const providerConfig = config.providers[providerName];
\* if (!providerConfig || !providerConfig.apiKey)
keyMissing(providerName) ==
  ~hasEntry(config.providers, providerName) \/ ~Truthy(getProviderKey(providerName))

\* A faulty variant of keyRejected: the format check left out.
keyRejectedNever(providerName) == FALSE

\* if (!validateProviderKey(providerName, providerConfig.apiKey))
keyRejected(providerName) ==
  ~validateProviderKey(providerName, getProviderKey(providerName))

\* A faulty variant of alreadyRegistered: the registry is not consulted.
alreadyRegisteredNever(providerName) == FALSE

\* let provider = providerRegistry.get(providerName); if (!provider) ...
alreadyRegistered(providerName) == get(providerName) # NullProvider

ResolveProvider(modelOrProvider) ==
  LET providerName == chooseProviderName(modelOrProvider)
  IN
  /\ IF Truthy(modelOrProvider) /\ ~Truthy(providerName)
     THEN /\ result' = Threw("resolveProvider", modelOrProvider,
                             Error("Error", "Unknown model or provider",
                                   modelOrProvider, list), providerName)
          /\ UNCHANGED registryVars
     ELSE IF ~Truthy(providerName)
     THEN /\ result' = Threw("resolveProvider", modelOrProvider,
                             Error("AuthenticationError", "No provider configured",
                                   "unknown", {}), providerName)
          /\ UNCHANGED registryVars
     ELSE IF keyMissing(providerName)
     THEN /\ result' = Threw("resolveProvider", modelOrProvider,
                             Error("AuthenticationError", "API key not configured",
                                   providerName, {}), providerName)
          /\ UNCHANGED registryVars
     ELSE IF keyRejected(providerName)
     THEN /\ result' = Threw("resolveProvider", modelOrProvider,
                             Error("AuthenticationError", "Invalid API key format",
                                   providerName, {}), providerName)
          /\ UNCHANGED registryVars
     ELSE IF alreadyRegistered(providerName)
     THEN /\ result' = Returned("resolveProvider", modelOrProvider,
                                get(providerName), FALSE, providerName, 0)
          /\ UNCHANGED registryVars
     ELSE IF createProviderThrows(providerName)
     THEN /\ result' = Threw("resolveProvider", modelOrProvider,
                             Error("Error", "Unknown provider", providerName, {}),
                             providerName)
          /\ UNCHANGED registryVars
     ELSE LET provider == createProviderInstance(providerName,
                            newInstanceId(providerName, providers),
                            entryAddress(config.providers, providerName))
          IN /\ providers' = registerProvider(providers, provider, providerName)
             /\ modelToProvider' = registerModels(modelToProvider, provider, providerName)
             /\ result' = Returned("resolveProvider", modelOrProvider,
                                   provider, FALSE, providerName, 1)
             /\ UNCHANGED defaultProviderName
  /\ UNCHANGED configVars

\* The loop of registerConfiguredProviders over Object.entries(config.providers),
\* from entry i on: the registry maps it leaves, and whether it threw.
RECURSIVE registerEntries(_, _, _, _, _)
registerEntries(entries, objects, i, pv, m2p) ==
  IF i > Len(entries) THEN [providers |-> pv, modelToProvider |-> m2p, threw |-> FALSE,
                            name |-> Undefined, constructed |-> 0]
  ELSE LET name == entries[i][1]
           addr == entries[i][2]
       IN IF ~Truthy(objects[addr].apiKey)
          THEN registerEntries(entries, objects, i + 1, pv, m2p)
          ELSE IF createProviderThrows(name)
          THEN [providers |-> pv, modelToProvider |-> m2p, threw |-> TRUE,
                name |-> name, constructed |-> 0]
          ELSE LET provider == createProviderInstance(name, newInstanceId(name, pv), addr)
                   rest == registerEntries(entries, objects, i + 1,
                                           registerProvider(pv, provider, name),
                                           registerModels(m2p, provider, name))
               IN [rest EXCEPT !.constructed = @ + 1]

RegisterConfiguredProviders ==
  LET loop == registerEntries(config.providers, heap, 1, providers, modelToProvider)
  IN /\ providers' = loop.providers
     /\ modelToProvider' = loop.modelToProvider
     /\ IF loop.threw
        THEN /\ result' = Threw("registerConfiguredProviders", Undefined,
                                Error("Error", "Unknown provider", loop.name, {}), Undefined)
             /\ UNCHANGED defaultProviderName
        ELSE /\ result' = Returned("registerConfiguredProviders", Undefined, NullProvider,
                                   FALSE, Undefined, loop.constructed)
             /\ defaultProviderName' =
                  IF Truthy(config.defaultProvider) /\ config.defaultProvider \in DOMAIN loop.providers
                  THEN config.defaultProvider
                  ELSE IF "qwen" \in DOMAIN loop.providers THEN "qwen"
                  ELSE defaultProviderName
     /\ heap' = reachable(heap, config.providers, loop.providers)
     /\ UNCHANGED <<config, file>>

(***************************************************************************)
(* Specifications.                                                         *)
(***************************************************************************)
\* A ConfigManager on a path with no file, and an empty registry.
Init ==
  /\ providers = <<>>
  /\ modelToProvider = <<>>
  /\ defaultProviderName = Undefined
  /\ config = [providers |-> <<>>, defaultProvider |-> Undefined, defaultModel |-> Undefined]
  /\ heap = <<>>
  /\ file = NoFile
  /\ result = NoResult

ProviderNamePool == {"qwen", "openai"}

\* "sk-abc" is well-formed for qwen and too short for openai.
KeyPool == {"", "sk-abc", "sk-openai-key"}

HintPool ==
  {Undefined, "qwen", "openai", "qwen-turbo", "GPT-4O", "nosuch", "constructor"}

SetProviderKeyStep == \E p \in ProviderNamePool, k \in KeyPool : SetProviderKey(p, k, TRUE)

SetDefaultProviderStep == \E p \in ProviderNamePool : SetDefaultProvider(p, TRUE)

RemoveProviderStep == \E p \in ProviderNamePool : RemoveProvider(p, TRUE)

ResolveProviderStep == \E h \in HintPool : ResolveProvider(h)

Next ==
  \/ SetProviderKeyStep
  \/ SetDefaultProviderStep
  \/ RemoveProviderStep
  \/ RegisterConfiguredProviders
  \/ ResolveProviderStep

Spec == Init /\ [][Next]_vars

(***************************************************************************)
(* The resolver's contract, under Spec.  A step whose result' is a         *)
(* resolveProvider outcome is a call of resolveProvider(result'.arg) in    *)
(* the state the unprimed variables describe.                              *)
(***************************************************************************)
\* The name a hint resolves to as the specification words it: the hint
\* itself if it is a registered name, otherwise the table's entry for the
\* lower-cased hint, otherwise none.
hintTarget(hint) ==
  IF hint \in DOMAIN providers THEN hint
  ELSE IF toLowerCase(hint) \in DOMAIN MODEL_TO_PROVIDER
       THEN MODEL_TO_PROVIDER[toLowerCase(hint)]
  ELSE Undefined

\* C1: resolveProvider with a non-empty hint returns the provider registered
\* under the name the hint resolves to, or fails; a hint that is neither a
\* registered name nor a table entry fails with the 'Unknown model or
\* provider' error listing the registered names, and leaves the registry and
\* the configuration unchanged.
C1_HintedResolve ==
  [][(result'.op = "resolveProvider" /\ Truthy(result'.arg)) =>
       IF hintTarget(result'.arg) = Undefined
       THEN /\ result'.status = "threw"
            /\ result'.error.type = "Error"
            /\ result'.error.message = "Unknown model or provider"
            /\ result'.error.available = list
            /\ UNCHANGED <<registryVars, configVars>>
       ELSE \/ result'.status = "threw"
            \/ /\ result'.status = "returned"
               /\ hintTarget(result'.arg) \in DOMAIN providers'
               /\ result'.value = providers'[hintTarget(result'.arg)]]_vars

\* C2: resolveProvider without a hint chooses config.defaultProvider if it
\* is set, else 'qwen' if qwen has a non-empty key, else fails with the
\* AuthenticationError 'No provider configured'; a default whose credentials
\* are missing or invalid fails with an AuthenticationError naming the
\* default, whatever key qwen has.
C2_NoHintPriority ==
  [][(result'.op = "resolveProvider" /\ ~Truthy(result'.arg)) =>
       IF Truthy(config.defaultProvider)
       THEN /\ result'.status = "returned" =>
                 /\ config.defaultProvider \in DOMAIN providers'
                 /\ result'.value = providers'[config.defaultProvider]
            /\ result'.status = "threw" =>
                 result'.error.provider = config.defaultProvider
            /\ (\/ ~hasProvider(config.defaultProvider)
                \/ ~validateProviderKey(config.defaultProvider,
                                        getProviderKey(config.defaultProvider))) =>
                 /\ result'.status = "threw"
                 /\ result'.error.type = "AuthenticationError"
       ELSE IF Truthy(getProviderKey("qwen"))
       THEN /\ result'.status = "returned" =>
                 ("qwen" \in DOMAIN providers' /\ result'.value = providers'["qwen"])
            /\ result'.status = "threw" => result'.error.provider = "qwen"
       ELSE /\ result'.status = "threw"
            /\ result'.error.type = "AuthenticationError"
            /\ result'.error.message = "No provider configured"]_vars

\* A resolve without a hint failed naming the default 'openai', whose key is
\* malformed, while qwen holds a well-formed key.
C2_Witness ==
  /\ result.op = "resolveProvider" /\ ~Truthy(result.arg)
  /\ config.defaultProvider = "openai"
  /\ result.status = "threw" /\ result.error.provider = "openai"
  /\ Truthy(getProviderKey("openai"))
  /\ validateProviderKey("qwen", getProviderKey("qwen"))

\* C3: once a name is chosen, a missing entry or an empty key fails with the
\* AuthenticationError naming the provider and carrying the 'config set
\* <provider>.apiKey' remediation, and a key that fails the format check
\* fails with an AuthenticationError naming the provider; either way no
\* instance is constructed and the registry is as it was.
C3_CredentialFailures ==
  [][(result'.op = "resolveProvider" /\ Truthy(chooseProviderName(result'.arg))) =>
       LET n == chooseProviderName(result'.arg)
       IN IF ~hasEntry(config.providers, n) \/ ~Truthy(getProviderKey(n))
          THEN /\ result'.status = "threw"
               /\ result'.error.type = "AuthenticationError"
               /\ result'.error.message = "API key not configured"
               /\ result'.error.provider = n
               /\ result'.constructed = 0
               /\ UNCHANGED registryVars
          ELSE ~validateProviderKey(n, getProviderKey(n)) =>
               /\ result'.status = "threw"
               /\ result'.error.type = "AuthenticationError"
               /\ result'.error.provider = n
               /\ result'.constructed = 0
               /\ UNCHANGED registryVars]_vars

\* A resolve failed on the format of openai's key while qwen was registered.
C3_Witness ==
  /\ result.op = "resolveProvider" /\ result.status = "threw"
  /\ result.error.message = "Invalid API key format"
  /\ result.error.provider = "openai"
  /\ Truthy(getProviderKey("openai"))
  /\ has("qwen")

\* C5: a successful resolve that chose n returns the instance registered
\* under n, constructing nothing and leaving the registry alone; if n was not
\* registered it constructs exactly one instance, registers it under n and
\* returns it.  Afterwards get(n) is the returned instance, and a resolve
\* that follows a resolve of the same name returns the same instance.
C5_ReuseOrConstructOnce ==
  [][(result'.op = "resolveProvider" /\ result'.status = "returned") =>
       LET n == chooseProviderName(result'.arg)
       IN /\ IF n \in DOMAIN providers
             THEN /\ result'.value = providers[n]
                  /\ result'.constructed = 0
                  /\ UNCHANGED registryVars
             ELSE /\ result'.constructed = 1
                  /\ DOMAIN providers' = DOMAIN providers \cup {n}
                  /\ \A m \in DOMAIN providers : providers'[m] = providers[m]
          /\ getIn(providers', n) = result'.value
          /\ (/\ result.op = "resolveProvider"
              /\ result.status = "returned"
              /\ result.chosen = n) => result'.value = result.value]_vars

\* A resolve returned the instance that an earlier call had registered.
C5_Witness ==
  /\ result.op = "resolveProvider" /\ result.status = "returned"
  /\ result.constructed = 0
  /\ result.chosen = "openai"
  /\ result.value = get("openai")

ConfigStoreOps ==
  {"setProviderKey", "setProviderConfig", "removeProvider", "setDefaultProvider",
   "setDefaultModel"}

\* C6: a Configuration Store operation changes neither the API key a
\* registered instance sends nor the result of its isAvailable().
C6_CredentialsStayAsCaptured ==
  [][(result'.op \in ConfigStoreOps) =>
       \A n \in DOMAIN providers :
         /\ n \in DOMAIN providers'
         /\ sentApiKey(providers'[n], heap') = sentApiKey(providers[n], heap)
         /\ isAvailable(providers'[n], heap') = isAvailable(providers[n], heap)]_vars

(***************************************************************************)
(* SpecModels: the resolver called with the model identifiers of the       *)
(* static table, over the three implemented providers, each without an     *)
(* entry, with an empty key or with a well-formed key.                     *)
(***************************************************************************)
ImplementedNamePool == {"qwen", "openai", "anthropic"}

WellFormedKey(provider) ==
  CASE provider = "qwen" -> "sk-abc"
    [] provider = "openai" -> "sk-openai-key"
    [] provider = "anthropic" -> "sk-ant-test-key-1"

SetModelProviderKeyStep ==
  \E p \in ImplementedNamePool :
    \E k \in {"", WellFormedKey(p)} : SetProviderKey(p, k, TRUE)

RemoveModelProviderStep == \E p \in ImplementedNamePool : RemoveProvider(p, TRUE)

ResolveModelStep == \E m \in DOMAIN MODEL_TO_PROVIDER : ResolveProvider(m)

NextModels ==
  \/ SetModelProviderKeyStep
  \/ RemoveModelProviderStep
  \/ ResolveModelStep
  \/ Clear

SpecModels == Init /\ [][NextModels]_vars

\* C4: for every model M of the static table, mapped to provider P,
\* resolveProvider(M) fails with an AuthenticationError naming P when P has
\* no credentials, and returns a provider whose getName() is P when P has a
\* well-formed key, whether or not P was registered before.
C4_TableModels ==
  [][(result'.op = "resolveProvider" /\ result'.arg \in DOMAIN MODEL_TO_PROVIDER) =>
       LET P == MODEL_TO_PROVIDER[result'.arg]
       IN /\ ~hasProvider(P) =>
               /\ result'.status = "threw"
               /\ result'.error.type = "AuthenticationError"
               /\ result'.error.provider = P
          /\ (hasProvider(P) /\ validateProviderKey(P, getProviderKey(P))) =>
               /\ result'.status = "returned"
               /\ getName(result'.value) = P]_vars

\* resolveProvider('claude-3-5-sonnet') constructed an anthropic provider
\* while openai stayed registered from an earlier call.
C4_Witness ==
  /\ result.op = "resolveProvider" /\ result.arg = "claude-3-5-sonnet"
  /\ result.status = "returned" /\ result.constructed = 1
  /\ getName(result.value) = "anthropic"
  /\ has("openai")

(***************************************************************************)
(* SpecRegistry: the ProviderRegistry on its own, with MockProvider         *)
(* instances as the registry tests register them.                          *)
(***************************************************************************)
MockInstances == 2

MockModelLists == {<<"model1", "model2">>, <<"model2", "model3">>}

MockPool ==
  {NewMockProvider(<<"mock", i>>, "test", models, TRUE) :
     i \in 1..MockInstances, models \in MockModelLists}

RegistryNamePool == {"provider1", "provider2"}

BlankNamePool == {"", "  "}

RegisterStep ==
  \E provider \in MockPool \cup {NullProvider}, name \in RegistryNamePool \cup BlankNamePool :
    Register(provider, name)

SetDefaultStep == \E name \in RegistryNamePool : SetDefault(name)

UnregisterStep == \E name \in RegistryNamePool : Unregister(name)

NextRegistry ==
  \/ RegisterStep
  \/ SetDefaultStep
  \/ UnregisterStep
  \/ Clear

SpecRegistry == Init /\ [][NextRegistry]_vars

\* C7: right after register(P, n) succeeds, get(n) is P and getByModel(M) is
\* P for every model M that P supports, whoever owned M or n before.
C7_RegisterThenLookup ==
  [][(result'.op = "register" /\ result'.status = "returned") =>
       /\ getIn(providers', result'.arg) = result'.value
       /\ \A M \in Range(getSupportedModels(result'.value)) :
            getByModelIn(providers', modelToProvider', M) = result'.value]_vars

\* provider1 was registered again with an instance supporting another model
\* list, and took model2 over from provider2.
C7_Witness ==
  /\ result.op = "register" /\ result.status = "returned" /\ result.arg = "provider1"
  /\ has("provider2") /\ "model2" \in Range(getSupportedModels(get("provider2")))
  /\ getByModel("model2") = result.value
  /\ get("provider1") = result.value
  /\ \E M \in DOMAIN modelToProvider :
       modelToProvider[M] = "provider1" /\ M \notin Range(getSupportedModels(result.value))

\* C8: unregister(n) of a registered name returns true, leaves get(n) absent
\* and no model-index entry of n, clears the default exactly when it pointed
\* at n, and leaves the other providers, the entries owned by other names and
\* a default naming another provider alone; unregister(n) of an unregistered
\* name returns false and changes nothing.
C8_UnregisterFrame ==
  [][(result'.op = "unregister") =>
       IF result'.arg \in DOMAIN providers
       THEN /\ result'.flag = TRUE
            /\ getIn(providers', result'.arg) = NullProvider
            /\ \A M \in DOMAIN modelToProvider' : modelToProvider'[M] # result'.arg
            /\ defaultProviderName' =
                 IF defaultProviderName = result'.arg THEN Undefined ELSE defaultProviderName
            /\ \A m \in DOMAIN providers \ {result'.arg} : getIn(providers', m) = providers[m]
            /\ \A M \in DOMAIN modelToProvider :
                 modelToProvider[M] # result'.arg =>
                   (M \in DOMAIN modelToProvider' /\ modelToProvider'[M] = modelToProvider[M])
       ELSE /\ result'.flag = FALSE
            /\ UNCHANGED registryVars]_vars

\* A name is blank when it is empty or holds white space only.
blank(name) == \A i \in DOMAIN chars(name) : chars(name)[i] \in WhiteSpace

\* C9: register with an absent provider or a blank name raises and leaves
\* the name map and the model index as they were; setDefault of a name that
\* is not registered raises and leaves the default as it was.
C9_FailuresChangeNothing ==
  [][/\ (result'.op = "register" /\ (result'.value = NullProvider \/ blank(result'.arg))) =>
          (result'.status = "threw" /\ UNCHANGED registryVars)
     /\ (result'.op = "setDefault" /\ result'.arg \notin DOMAIN providers) =>
          (result'.status = "threw" /\ UNCHANGED registryVars)]_vars

\* register of a white-space name was refused in a registry that holds a
\* provider and a default.
C9_Witness ==
  /\ result.op = "register" /\ result.status = "threw"
  /\ result.arg = "  " /\ result.value # NullProvider
  /\ has("provider1") /\ defaultProviderName = "provider1"

\* C27: in every reachable registry state the default pointer is unset or
\* names a registered provider, so getDefault() is absent only when no
\* default is set; right after clear() the name map, the model index and the
\* default pointer are all empty.
C27_DefaultNamesRegistered ==
  /\ defaultProviderName = Undefined \/ defaultProviderName \in DOMAIN providers
  /\ getDefault = NullProvider => defaultProviderName = Undefined
  /\ result.op = "clear" =>
       /\ DOMAIN providers = {}
       /\ DOMAIN modelToProvider = {}
       /\ defaultProviderName = Undefined

\* setDefault of a name that was unregistered failed, and the default still
\* names the other provider, which is registered.
C27_Witness ==
  /\ result.op = "setDefault" /\ result.status = "threw" /\ result.arg = "provider2"
  /\ defaultProviderName = "provider1" /\ has("provider1") /\ ~has("provider2")
  /\ \E M \in DOMAIN modelToProvider : modelToProvider[M] = "provider2"
  /\ getDefault = get("provider1")

\* C28: in every reachable registry state, every model-index entry that maps
\* model M to name n has n registered and M among getSupportedModels() of the
\* provider registered as n, also after a name is registered again with a
\* provider of another model list and after unregister.
C28_ModelIndexValid ==
  \A M \in DOMAIN modelToProvider :
    /\ modelToProvider[M] \in DOMAIN providers
    /\ M \in Range(getSupportedModels(providers[modelToProvider[M]]))

\* A registration that replaces the provider of a registered name by one of
\* another model list.
replacesModelList(pv, provider, name) ==
  name \in DOMAIN pv /\ getSupportedModels(pv[name]) # getSupportedModels(provider)

\* Every other step keeps a valid model index valid.
C28_OtherStepsKeepIndexValid ==
  [][(/\ C28_ModelIndexValid
      /\ ~(/\ result'.op = "register" /\ result'.status = "returned"
            /\ replacesModelList(providers, result'.value, result'.arg)))
       => C28_ModelIndexValid']_vars

(***************************************************************************)
(* SpecConfig: the Configuration Store on its own.                         *)
(***************************************************************************)
ConfigPool ==
  {KeyOnlyConfig("sk-openai-key"),
   [apiKey |-> "sk-abc", baseUrl |-> Some("https://example.test/v1"),
    timeout |-> Some(5000), maxRetries |-> Some(2),
    customHeaders |-> Some("X-Org: a")]}

ModelPool == {"gpt-4o", "qwen-turbo"}

SetConfigKeyStep == \E p \in ProviderNamePool, k \in KeyPool : SetProviderKey(p, k, TRUE)

SetProviderConfigStep ==
  \E p \in ProviderNamePool, f \in ConfigPool : SetProviderConfig(p, f, TRUE)

SetConfigDefaultStep == \E p \in ProviderNamePool : SetDefaultProvider(p, TRUE)

SetDefaultModelStep == \E m \in ModelPool : SetDefaultModel(m, TRUE)

RemoveConfigStep == \E p \in ProviderNamePool : RemoveProvider(p, TRUE)

NextConfig ==
  \/ SetConfigKeyStep
  \/ SetProviderConfigStep
  \/ SetConfigDefaultStep
  \/ SetDefaultModelStep
  \/ RemoveConfigStep

SpecConfig == Init /\ [][NextConfig]_vars

NonKeySettings == {"baseUrl", "timeout", "maxRetries", "customHeaders"}

\* C10: after setProviderKey(p, K), getProviderKey(p) is K, and the other
\* providers' entries, p's own baseUrl, timeout, maxRetries and
\* customHeaders, the default provider and the default model are as before.
C10_SetProviderKeyFrame ==
  [][(result'.op = "setProviderKey") =>
       /\ getProviderKeyOf(config', heap', result'.arg) = result'.key
       /\ entryNames(config'.providers) = entryNames(config.providers) \cup {result'.arg}
       /\ \A q \in entryNames(config.providers) \ {result'.arg} :
            getProviderConfigOf(config', heap', q) = getProviderConfigOf(config, heap, q)
       /\ hasEntry(config.providers, result'.arg) =>
            \A f \in NonKeySettings :
              getProviderConfigOf(config', heap', result'.arg)[f]
                = getProviderConfigOf(config, heap, result'.arg)[f]
       /\ config'.defaultProvider = config.defaultProvider
       /\ config'.defaultModel = config.defaultModel]_vars

\* setProviderKey replaced the key of an entry that carries a baseUrl, with
\* another provider, a default provider and a default model configured.
C10_Witness ==
  /\ result.op = "setProviderKey" /\ result.arg = "qwen" /\ result.key = "sk-openai-key"
  /\ getProviderKey("qwen") = "sk-openai-key"
  /\ getProviderConfigOf(config, heap, "qwen").baseUrl # Absent
  /\ hasEntry(config.providers, "openai")
  /\ config.defaultProvider = "openai"
  /\ config.defaultModel = "gpt-4o"

\* hasProvider(provider) against cfg and its objects.
hasProviderOf(cfg, objects, provider) ==
  hasEntry(cfg.providers, provider) /\ Truthy(getProviderKeyOf(cfg, objects, provider))

\* C34: in every state reachable through Configuration Store operations the
\* default provider, if set, is a configured provider (its entry exists and
\* its API key is non-empty), and setDefaultProvider(p) raises 'not
\* configured' for every p that is not configured.
C34_DefaultIsConfigured ==
  [][/\ config'.defaultProvider # Undefined =>
          hasProviderOf(config', heap', config'.defaultProvider)
     /\ (result'.op = "setDefaultProvider" /\ ~hasProvider(result'.arg)) =>
          (result'.status = "threw" /\ result'.error.message = "is not configured")]_vars

\* What does hold: the default provider, if set, has an entry, whatever its
\* key, and setDefaultProvider(p) raises for every p without an entry.
C34_DefaultHasEntry ==
  [][/\ config'.defaultProvider # Undefined =>
          hasEntry(config'.providers, config'.defaultProvider)
     /\ (result'.op = "setDefaultProvider" /\ ~hasEntry(config.providers, result'.arg)) =>
          (result'.status = "threw" /\ result'.error.message = "is not configured")]_vars

(***************************************************************************)
(* SpecPersist: the Configuration Store and its file.  Writes may fail,    *)
(* a document may be put at the path from outside, and a new process may   *)
(* construct a ConfigManager on the path.  A process whose save failed     *)
(* ends (the error reaches main's catch, which exits), and a document is   *)
(* put at the path while no process runs: the next step of either is the   *)
(* construction of a ConfigManager by a new process.                       *)
(***************************************************************************)
saveFailed ==
  result.status = "threw" /\ result.error.message = "Failed to save configuration"

processRunning == result.op # "putFile" /\ ~saveFailed

LegacyFile(apiKey, defaultModel) ==
  [kind |-> "legacy", apiKey |-> Some(apiKey), defaultModel |-> defaultModel]

FilePool ==
  {NoFile, [kind |-> "unreadable"], [kind |-> "corrupt"], [kind |-> "scalar"],
   [kind |-> "other"]}
  \cup {LegacyFile(k, m) : k \in {"", "sk-abc"}, m \in {Absent, Some("qwen-turbo")}}

PersistKeyPool == {"", "sk-abc"}

PersistConfigPool ==
  {[apiKey |-> "sk-openai-key", baseUrl |-> Some("https://example.test/v1"),
    timeout |-> Absent, maxRetries |-> Absent, customHeaders |-> Absent]}

PersistModelPool == {"gpt-4o"}

\* The names given to setDefaultProvider and removeProvider: the provider
\* names and one name that Object.prototype defines.
DefaultNamePool == ProviderNamePool \cup {"constructor"}

\* fs.writeFileSync(path, ...) from outside the ConfigManager.
PutFile(f) ==
  /\ file' = f
  /\ result' = Returned("putFile", Undefined, NullProvider, FALSE, Undefined, 0)
  /\ UNCHANGED <<config, heap, registryVars>>

PutFileStep == \E f \in FilePool : PutFile(f)

NewConfigManagerStep == \E w \in BOOLEAN : NewConfigManager(w)

PersistKeyStep ==
  /\ processRunning
  /\ \E p \in ProviderNamePool, k \in PersistKeyPool, w \in BOOLEAN : SetProviderKey(p, k, w)

PersistConfigStep ==
  /\ processRunning
  /\ \E p \in ProviderNamePool, f \in PersistConfigPool, w \in BOOLEAN :
    SetProviderConfig(p, f, w)

PersistDefaultStep ==
  /\ processRunning
  /\ \E p \in DefaultNamePool, w \in BOOLEAN : SetDefaultProvider(p, w)

PersistModelStep ==
  /\ processRunning
  /\ \E m \in PersistModelPool, w \in BOOLEAN : SetDefaultModel(m, w)

PersistRemoveStep ==
  /\ processRunning
  /\ \E p \in DefaultNamePool, w \in BOOLEAN : RemoveProvider(p, w)

NextPersist ==
  \/ PutFileStep
  \/ NewConfigManagerStep
  \/ PersistKeyStep
  \/ PersistConfigStep
  \/ PersistDefaultStep
  \/ PersistModelStep
  \/ PersistRemoveStep

SpecPersist == Init /\ [][NextPersist]_vars

\* C11: after every mutating operation of the Configuration Store that
\* returns, the file holds the document of the in-memory configuration, and
\* a ConfigManager constructed on the file has the same entries, provider
\* keys, default provider and default model.
C11_PersistedEqualsMemory ==
  [][(result'.op \in ConfigStoreOps /\ result'.status = "returned") =>
       /\ file' = document(config', heap')
       /\ \A w \in BOOLEAN :
            /\ entryNames(loadConfig(file', w).config.providers)
                 = entryNames(config'.providers)
            /\ \A p \in entryNames(config'.providers) \cup ProviderNamePool :
                 getProviderConfigOf(loadConfig(file', w).config,
                                     loadConfig(file', w).objects, p)
                   = getProviderConfigOf(config', heap', p)
            /\ loadConfig(file', w).config.defaultProvider = config'.defaultProvider
            /\ loadConfig(file', w).config.defaultModel = config'.defaultModel]_vars

\* removeProvider returned and wrote a document with an entry carrying a
\* baseUrl, a default provider and a default model.
C11_Witness ==
  /\ result.op = "removeProvider" /\ result.status = "returned"
  /\ file = document(config, heap)
  /\ hasEntry(config.providers, "openai")
  /\ getProviderConfigOf(config, heap, "openai").baseUrl # Absent
  /\ config.defaultProvider = "openai"
  /\ config.defaultModel = "gpt-4o"

\* C12: constructing a ConfigManager on a document that has a top-level
\* apiKey and no providers field leaves getProviderKey('qwen') equal to the
\* legacy apiKey, getDefaultProvider() equal to 'qwen', getDefaultModel()
\* equal to the legacy defaultModel when the document has one, and the file
\* rewritten into the shape with a providers field.
C12_LegacyMigrated ==
  [][(result'.op = "constructor" /\ file.kind = "legacy") =>
       /\ getProviderKeyOf(config', heap', "qwen") = parseOptional(file.apiKey)
       /\ config'.defaultProvider = "qwen"
       /\ (file.defaultModel # Absent =>
             config'.defaultModel = parseOptional(file.defaultModel))
       /\ file'.kind = "multi"]_vars

\* C13: after every operation the default provider, when set, names an
\* entry of the providers mapping; setDefaultProvider(p) for a p that has no
\* entry raises and leaves the configuration and the file as they were;
\* removeProvider of the current default clears the default.
C13_DefaultNamesAnEntry ==
  [][/\ (config'.defaultProvider # Undefined =>
           hasEntry(config'.providers, config'.defaultProvider))
     /\ ((result'.op = "setDefaultProvider" /\ ~hasEntry(config.providers, result'.arg)) =>
           /\ result'.status = "threw"
           /\ config' = config /\ heap' = heap /\ file' = file)
     /\ ((result'.op = "removeProvider" /\ result'.arg = config.defaultProvider) =>
           config'.defaultProvider = Undefined)]_vars

\* C14: constructing a ConfigManager on a file that is missing, cannot be
\* read or cannot be parsed does not raise, leaves the configuration empty
\* and leaves the file as it was.
C14_BadFileLoadsEmpty ==
  [][(result'.op = "constructor" /\ file.kind \in {"missing", "unreadable", "corrupt"}) =>
       /\ result'.status = "returned"
       /\ config' = EmptyConfig
       /\ \A p \in DefaultNamePool : getProviderKeyOf(config', heap', p) = Undefined
       /\ file' = file]_vars

\* A ConfigManager was constructed on a file that cannot be parsed.
C14_Witness ==
  /\ result.op = "constructor" /\ result.status = "returned"
  /\ file.kind = "corrupt"
  /\ config = EmptyConfig

\* The operation that made this step failed to write the file.
writeFailed(r) ==
  r.op \in ConfigStoreOps /\ r.status = "threw"
    /\ r.error.message = "Failed to save configuration"

\* C33: when writing the file fails during a mutating operation, the
\* operation raises and getProviderKey, getDefaultProvider and
\* getDefaultModel return what they returned before the call; and a
\* migration whose write fails keeps the legacy key in the loaded
\* configuration.
C33_FailedWriteChangesNothing ==
  [][/\ writeFailed(result') =>
          /\ \A p \in DefaultNamePool :
               getProviderKeyOf(config', heap', p) = getProviderKey(p)
          /\ config'.defaultProvider = getDefaultProvider
          /\ config'.defaultModel = getDefaultModel
     /\ (/\ result'.op = "constructor" /\ file.kind = "legacy"
         /\ Truthy(parseOptional(file.apiKey))) =>
          getProviderKeyOf(config', heap', "qwen") = parseOptional(file.apiKey)]_vars

\* What does hold when a write fails: the operation raises and the file is
\* as it was; the migration does not raise and leaves the legacy document.
C33_FailedWriteKeepsFile ==
  [][/\ writeFailed(result') => file' = file
     /\ (/\ result'.op = "constructor" /\ file.kind = "legacy"
         /\ getProviderKeyOf(config', heap', "qwen") # parseOptional(file.apiKey)) =>
          (result'.status = "returned" /\ file' = file /\ config' = EmptyConfig)]_vars

(***************************************************************************)
(* Startup registration: configurations whose entries include a name that  *)
(* createProviderInstance does not know, registered into a registry that   *)
(* clear() empties.                                                        *)
(***************************************************************************)
StartupNamePool == {"qwen", "custom"}

StartupKeyPool == {"", "sk-abc"}

StartupKeyStep ==
  \E p \in StartupNamePool, k \in StartupKeyPool : SetProviderKey(p, k, TRUE)

StartupDefaultStep == \E p \in StartupNamePool : SetDefaultProvider(p, TRUE)

StartupRemoveStep == \E p \in StartupNamePool : RemoveProvider(p, TRUE)

NextStartup ==
  \/ StartupKeyStep
  \/ StartupDefaultStep
  \/ StartupRemoveStep
  \/ RegisterConfiguredProviders
  \/ Clear

SpecStartup == Init /\ [][NextStartup]_vars

emptyRegistry ==
  providers = <<>> /\ modelToProvider = <<>> /\ defaultProviderName = Undefined

\* C15: after registerConfiguredProviders on an empty registry, a name is
\* registered exactly when the configuration holds a non-empty API key for
\* it, and the registry default is the configured default provider when
\* that is registered, else 'qwen' when that is registered, else unset.
C15_RegisteredIffKeyed ==
  [][(result'.op = "registerConfiguredProviders" /\ emptyRegistry) =>
       /\ \A n \in StartupNamePool \cup DOMAIN providers' :
            (n \in DOMAIN providers') <=> Truthy(getProviderKey(n))
       /\ defaultProviderName' =
            IF config.defaultProvider \in DOMAIN providers' THEN config.defaultProvider
            ELSE IF "qwen" \in DOMAIN providers' THEN "qwen"
            ELSE Undefined]_vars

\* The names the configuration holds a non-empty key for.
keyedNames == {n \in entryNames(config.providers) : Truthy(getProviderKey(n))}

\* C32: registerConfiguredProviders completes without raising for every
\* configuration the store's operations produce, a key stored for a name
\* without implementation included, and registers every other provider that
\* has a non-empty key.
C32_StartupNeverRaises ==
  [][(result'.op = "registerConfiguredProviders") =>
       /\ result'.status = "returned"
       /\ \A n \in keyedNames : ~createProviderThrows(n) => n \in DOMAIN providers']_vars

\* The same for the configurations in which every name with a non-empty key
\* has an implementation.
C32_ImplementedNamesRegister ==
  [][(/\ result'.op = "registerConfiguredProviders"
      /\ \A n \in keyedNames : ~createProviderThrows(n)) =>
       /\ result'.status = "returned"
       /\ \A n \in keyedNames : n \in DOMAIN providers']_vars

(***************************************************************************)
(* SpecFailures: the resolver over configurations whose entries and        *)
(* default may name a provider createProviderInstance does not know.       *)
(***************************************************************************)
FailureHintPool == {Undefined, "qwen", "qwen-turbo", "custom", "nosuch"}

FailureKeyStep ==
  \E p \in StartupNamePool, k \in StartupKeyPool : SetProviderKey(p, k, TRUE)

FailureDefaultStep == \E p \in StartupNamePool : SetDefaultProvider(p, TRUE)

FailureRemoveStep == \E p \in StartupNamePool : RemoveProvider(p, TRUE)

FailureResolveStep == \E h \in FailureHintPool : ResolveProvider(h)

NextFailures ==
  \/ FailureKeyStep
  \/ FailureDefaultStep
  \/ FailureRemoveStep
  \/ FailureResolveStep

SpecFailures == Init /\ [][NextFailures]_vars

\* The unknown-model-or-provider error: a hint was given and not resolved.
unknownHintFailure(r) ==
  /\ r.error.type = "Error" /\ r.error.message = "Unknown model or provider"
  /\ Truthy(r.arg) /\ r.error.provider = r.arg

\* An AuthenticationError carrying the chosen provider's name ('unknown'
\* when no provider was chosen).
authenticationFailure(r) ==
  /\ r.error.type = "AuthenticationError"
  /\ r.error.provider = (IF Truthy(r.chosen) THEN r.chosen ELSE "unknown")

\* C31: every failure of resolveProvider is the unknown-model-or-provider
\* error or an AuthenticationError carrying the name of the chosen provider,
\* also when the default provider has a well-formed key and no
\* implementation.
C31_FailureKinds ==
  [][(result'.op = "resolveProvider" /\ result'.status = "threw") =>
       (unknownHintFailure(result') \/ authenticationFailure(result'))]_vars

\* The failures outside these two kinds are the 'Unknown provider' errors of
\* createProviderInstance, for a chosen name that has a well-formed key and
\* no implementation.
C31_OtherFailureIsUnknownProvider ==
  [][(/\ result'.op = "resolveProvider" /\ result'.status = "threw"
      /\ ~unknownHintFailure(result') /\ ~authenticationFailure(result')) =>
       /\ result'.error.type = "Error" /\ result'.error.message = "Unknown provider"
       /\ result'.error.provider = result'.chosen
       /\ createProviderThrows(result'.chosen)
       /\ ~keyMissing(result'.chosen) /\ ~keyRejected(result'.chosen)]_vars

(***************************************************************************)
(* The command line: main of index.ts, run in a new process.  The module   *)
(* imports construct the ConfigManager on the file and an empty registry;  *)
(* what main leaves behind for the next run is the file.                   *)
(***************************************************************************)
\* validateProviderModel's table of models.
CLI_MODEL_TO_PROVIDER ==
  [m \in {"qwen-turbo", "qwen-plus", "qwen-max", "gpt-4o", "gpt-4-turbo", "gpt-4",
          "claude-3-opus", "claude-3-sonnet"} |->
     IF m \in {"qwen-turbo", "qwen-plus", "qwen-max"} THEN "qwen"
     ELSE IF m \in {"gpt-4o", "gpt-4-turbo", "gpt-4"} THEN "openai"
     ELSE "anthropic"]

cliTableLookup(key) ==
  IF key \in DOMAIN CLI_MODEL_TO_PROVIDER THEN CLI_MODEL_TO_PROVIDER[key]
  ELSE IF key \in ObjectPrototypeKeys THEN ObjectPrototypeMember
  ELSE Undefined

\* validateProviderModel(model, provider).valid
validateProviderModel(model, provider) ==
  ~(/\ Truthy(model) /\ Truthy(provider)
    /\ Truthy(cliTableLookup(toLowerCase(model)))
    /\ cliTableLookup(toLowerCase(model)) # toLowerCase(provider))

\* registerConfiguredProviders into the empty registry of a new process.
registerOutcome(cfg, objects) ==
  LET loop == registerEntries(cfg.providers, objects, 1, <<>>, <<>>)
  IN [threw |-> loop.threw,
      name |-> loop.name,
      providers |-> loop.providers,
      modelToProvider |-> loop.modelToProvider,
      defaultProviderName |->
        IF loop.threw THEN Undefined
        ELSE IF Truthy(cfg.defaultProvider) /\ cfg.defaultProvider \in DOMAIN loop.providers
        THEN cfg.defaultProvider
        ELSE IF "qwen" \in DOMAIN loop.providers THEN "qwen"
        ELSE Undefined]

\* resolveProviderName against the registry pv.
resolveProviderNameIn(pv, modelOrProvider) ==
  IF ~Truthy(modelOrProvider) THEN Undefined
  ELSE IF modelOrProvider \in DOMAIN pv THEN modelOrProvider
  ELSE IF Truthy(tableLookup(toLowerCase(modelOrProvider)))
       THEN tableLookup(toLowerCase(modelOrProvider))
  ELSE Undefined

\* Priorities 1 to 3 of resolveProvider against cfg and pv.
chooseProviderNameIn(cfg, objects, pv, modelOrProvider) ==
  IF Truthy(modelOrProvider) THEN resolveProviderNameIn(pv, modelOrProvider)
  ELSE IF Truthy(cfg.defaultProvider) THEN cfg.defaultProvider
  ELSE IF Truthy(getProviderKeyOf(cfg, objects, "qwen")) THEN "qwen"
  ELSE Undefined

\* resolveProvider(modelOrProvider) against cfg and the registry pv, m2p:
\* what it throws or returns, and the registry it leaves.
resolveOutcome(cfg, objects, pv, m2p, modelOrProvider) ==
  LET providerName == chooseProviderNameIn(cfg, objects, pv, modelOrProvider)
      failed(error) == [status |-> "threw", error |-> error, chosen |-> providerName,
                        value |-> NullProvider, providers |-> pv, modelToProvider |-> m2p]
  IN IF Truthy(modelOrProvider) /\ ~Truthy(providerName)
     THEN failed(Error("Error", "Unknown model or provider", modelOrProvider, DOMAIN pv))
     ELSE IF ~Truthy(providerName)
     THEN failed(Error("AuthenticationError", "No provider configured", "unknown", {}))
     ELSE IF \/ ~hasEntry(cfg.providers, providerName)
             \/ ~Truthy(getProviderKeyOf(cfg, objects, providerName))
     THEN failed(Error("AuthenticationError", "API key not configured", providerName, {}))
     ELSE IF ~validateProviderKey(providerName, getProviderKeyOf(cfg, objects, providerName))
     THEN failed(Error("AuthenticationError", "Invalid API key format", providerName, {}))
     ELSE IF getIn(pv, providerName) # NullProvider
     THEN [status |-> "returned", error |-> NoError, chosen |-> providerName,
           value |-> getIn(pv, providerName), providers |-> pv, modelToProvider |-> m2p]
     ELSE IF createProviderThrows(providerName)
     THEN failed(Error("Error", "Unknown provider", providerName, {}))
     ELSE LET provider == createProviderInstance(providerName,
                            newInstanceId(providerName, pv),
                            entryAddress(cfg.providers, providerName))
          IN [status |-> "returned", error |-> NoError, chosen |-> providerName,
              value |-> provider,
              providers |-> registerProvider(pv, provider, providerName),
              modelToProvider |-> registerModels(m2p, provider, providerName)]

\* What a caller sees of a resolveProvider outcome: returned or threw, the
\* name of the returned provider, the error's kind, text and provider.
seenOutcome(status, value, error) ==
  [status |-> status, name |-> getName(value), type |-> error.type,
   message |-> error.message, provider |-> error.provider]

\* resolveProvider(modelOrProvider) in the state at hand, had the registry
\* been empty.
resolveUnregistered(modelOrProvider) ==
  resolveOutcome(config, heap, <<>>, <<>>, modelOrProvider)

\* C29: for a hint that is one of the provider names, resolveProvider returns
\* or fails the same way whether providers are registered already or the
\* registry is empty, and with well-formed credentials it returns the
\* provider of that name.
C29_ResolveIgnoresRegistry ==
  [][(result'.op = "resolveProvider" /\ result'.arg \in Implemented) =>
       /\ seenOutcome(result'.status, result'.value, result'.error)
            = seenOutcome(resolveUnregistered(result'.arg).status,
                          resolveUnregistered(result'.arg).value,
                          resolveUnregistered(result'.arg).error)
       /\ (~keyMissing(result'.arg) /\ ~keyRejected(result'.arg)) =>
            (result'.status = "returned" /\ getName(result'.value) = result'.arg)]_vars

\* The same for the hints that are not provider names (none, a model
\* identifier in either case, an unknown word): registered providers do not
\* change what the caller sees.
C29_OtherHintsIgnoreRegistry ==
  [][(result'.op = "resolveProvider" /\ result'.arg \notin Implemented) =>
       seenOutcome(result'.status, result'.value, result'.error)
         = seenOutcome(resolveUnregistered(result'.arg).status,
                       resolveUnregistered(result'.arg).value,
                       resolveUnregistered(result'.arg).error)]_vars

\* C30: every provider a successful resolveProvider returns has
\* isAvailable() = true when it is returned, also when the instance was
\* registered earlier and the configuration was changed afterwards.
C30_ResolvedIsAvailable ==
  [][(result'.op = "resolveProvider" /\ result'.status = "returned") =>
       isAvailable(result'.value, heap')]_vars

\* The same for a returned instance that holds the ProviderConfig object the
\* configuration has under its name now: one this call constructed, or one
\* registered earlier whose object was changed in place.
C30_CurrentObjectIsAvailable ==
  [][(/\ result'.op = "resolveProvider" /\ result'.status = "returned"
      /\ result'.value.config = entryAddress(config.providers, result'.chosen))
       => isAvailable(result'.value, heap')]_vars

\* key.includes('.')
includes(s, c) == c \in Range(chars(s))

\* The pieces of cs between the occurrences of c.
RECURSIVE splitChars(_, _)
splitChars(cs, c) ==
  IF c \notin Range(cs) THEN <<cs>>
  ELSE LET i == CHOOSE k \in DOMAIN cs : cs[k] = c /\ \A j \in 1..(k - 1) : cs[j] # c
       IN <<SubSeq(cs, 1, i - 1)>> \o splitChars(SubSeq(cs, i + 1, Len(cs)), c)

\* s.split(c, limit): the first limit pieces.
split(s, c, limit) ==
  LET pieces == splitChars(chars(s), c)
  IN [i \in 1..(IF Len(pieces) < limit THEN Len(pieces) ELSE limit) |-> string(pieces[i])]

\* args.join(' ')
RECURSIVE joinArgs(_)
joinArgs(args) ==
  IF Len(args) = 0 THEN ""
  ELSE IF Len(args) = 1 THEN args[1]
  ELSE string(chars(args[1]) \o <<" ">> \o chars(joinArgs(Tail(args))))

\* setProviderKey on the configuration cfg with the objects given.
setProviderKeyIn(cfg, objects, provider, key) ==
  IF ~entryTruthy(cfg.providers, provider)
  THEN [config |-> [cfg EXCEPT !.providers =
                      setEntry(cfg.providers, provider, boundAddress(provider))],
        objects |-> [a \in DOMAIN objects \cup {boundAddress(provider)} |->
                       IF a = boundAddress(provider) THEN KeyOnlyConfig(key)
                       ELSE objects[a]]]
  ELSE [config |-> cfg,
        objects |-> IF hasEntry(cfg.providers, provider)
                    THEN assignApiKey(objects, entryAddress(cfg.providers, provider), key)
                    ELSE objects]

(***************************************************************************)
(* SpecShared: two ConfigManager instances on one configuration file.  The *)
(* first is the ConfigManager of this process (config, heap).  The second  *)
(* belongs to another process, which constructs it on the file, calls      *)
(* setProviderKey and ends ('xyzulu config set <provider>.apiKey <key>');  *)
(* of that process the file is all this process sees.                      *)
(***************************************************************************)
\* new ConfigManager(path).setProviderKey(provider, key) in another process.
SecondInstanceSetProviderKey(provider, key) ==
  LET L == loadConfig(file, TRUE)
      S == setProviderKeyIn(L.config, L.objects, provider, key)
  IN /\ file' = document(S.config, S.objects)
     /\ result' = [Returned("setProviderKey", provider, NullProvider, FALSE, Undefined, 0)
                    EXCEPT !.key = key, !.chosen = "second instance"]
     /\ UNCHANGED <<config, heap, registryVars>>

FirstInstanceNames == {"qwen"}

SecondInstanceNames == {"openai"}

SharedKeyPool == {"sk-abc", "sk-qwen-key", "sk-openai-key"}

SharedConstructStep == NewConfigManager(TRUE)

SharedFirstStep ==
  \E p \in FirstInstanceNames, k \in SharedKeyPool : SetProviderKey(p, k, TRUE)

SharedSecondStep ==
  \E p \in SecondInstanceNames, k \in SharedKeyPool : SecondInstanceSetProviderKey(p, k)

NextShared ==
  \/ SharedConstructStep
  \/ SharedFirstStep
  \/ SharedSecondStep

SpecShared == Init /\ [][NextShared]_vars

\* The key the document f holds for provider.
persistedKey(f, provider) ==
  getProviderKeyOf(loadConfig(f, TRUE).config, loadConfig(f, TRUE).objects, provider)

\* C36: with two ConfigManager instances on one file, a setProviderKey of
\* either instance leaves in the persisted document the keys of the other
\* providers, so that after writes of both instances to different providers
\* the document holds both keys.
C36_NoWriteDiscardsAKey ==
  [][(result'.op = "setProviderKey" /\ result'.status = "returned") =>
       /\ persistedKey(file', result'.arg) = result'.key
       /\ \A q \in (FirstInstanceNames \cup SecondInstanceNames) \ {result'.arg} :
            persistedKey(file', q) = persistedKey(file, q)]_vars

\* What holds: every write persists the writer's own key, and a write of an
\* instance whose configuration is what the file holds discards nothing.
C36_WriteOfCurrentInstanceKeepsKeys ==
  [][(result'.op = "setProviderKey" /\ result'.status = "returned") =>
       /\ persistedKey(file', result'.arg) = result'.key
       /\ (result'.chosen = "second instance" \/ file = document(config, heap)) =>
            \A q \in (FirstInstanceNames \cup SecondInstanceNames) \ {result'.arg} :
               persistedKey(file', q) = persistedKey(file, q)]_vars

\* What console.log prints for a setting that has no value.
NotSetText == <<"(", "n", "o", "t", " ", "s", "e", "t", ")">>

\* apiKey.substring(0, 8) + '...' + apiKey.substring(apiKey.length - 4)
maskKey(cs) ==
  SubSeq(cs, 1, IF Len(cs) < 8 THEN Len(cs) ELSE 8)
    \o <<".", ".", ".">>
    \o SubSeq(cs, (IF Len(cs) < 4 THEN 0 ELSE Len(cs) - 4) + 1, Len(cs))

\* What a command handler leaves: the configuration, its objects and the
\* file, the exit code of the process (0 when main runs to its end), the
\* error reported, the Configuration Store mutator that ran, and the text
\* printed for a setting.
Handled(cfg, objects, f, exit, error, handler, output) ==
  [config |-> cfg, objects |-> objects, file |-> f, exit |-> exit, error |-> error,
   handler |-> handler, output |-> output]

handleConfigGet(cfg, objects, f, key) ==
  LET print(cs) == Handled(cfg, objects, f, 0, NoError, "none", cs)
      unknown == Handled(cfg, objects, f, 1, Error("Error", "Unknown config key", key, {}),
                         "none", <<>>)
  IN IF includes(key, ".")
     THEN IF split(key, ".", 2)[2] = "apiKey"
          THEN IF Truthy(getProviderKeyOf(cfg, objects, split(key, ".", 2)[1]))
               THEN print(maskKey(chars(getProviderKeyOf(cfg, objects, split(key, ".", 2)[1]))))
               ELSE print(NotSetText)
          ELSE unknown
     ELSE CASE key = "defaultProvider" ->
                 IF Truthy(cfg.defaultProvider) THEN print(chars(cfg.defaultProvider))
                 ELSE print(NotSetText)
            [] key = "defaultModel" ->
                 IF Truthy(cfg.defaultModel) THEN print(chars(cfg.defaultModel))
                 ELSE print(NotSetText)
            [] OTHER -> unknown

handleConfigSet(cfg, objects, f, key, value, writeOk) ==
  LET saved(c, o, handler) ==
        IF writeOk THEN Handled(c, o, document(c, o), 0, NoError, handler, <<>>)
        ELSE Handled(c, o, f, 1, Error("Error", "Failed to save configuration", Undefined, {}),
                     handler, <<>>)
      stop(message, arg) ==
        Handled(cfg, objects, f, 1, Error("Error", message, arg, {}), "none", <<>>)
  IN IF includes(key, ".")
     THEN IF split(key, ".", 2)[2] = "apiKey"
          THEN IF ~validateProviderKey(split(key, ".", 2)[1], value)
               THEN stop("Invalid API key format", split(key, ".", 2)[1])
               ELSE saved(setProviderKeyIn(cfg, objects, split(key, ".", 2)[1], value).config,
                          setProviderKeyIn(cfg, objects, split(key, ".", 2)[1], value).objects,
                          "setProviderKey")
          ELSE stop("Unknown config key", key)
     ELSE CASE key = "defaultProvider" ->
                 IF ~entryTruthy(cfg.providers, value) THEN stop("is not configured", value)
                 ELSE saved([cfg EXCEPT !.defaultProvider = value], objects,
                            "setDefaultProvider")
            [] key = "defaultModel" ->
                 saved([cfg EXCEPT !.defaultModel = value], objects, "setDefaultModel")
            [] OTHER -> stop("Unknown config key", key)

handleConfigCommand(cfg, objects, f, args, writeOk) ==
  LET usage(message) ==
        Handled(cfg, objects, f, 1, Error("Error", message, Undefined, {}), "none", <<>>)
  IN IF Len(args) = 0 THEN usage("config command requires arguments")
     ELSE CASE args[1] = "get" ->
                 IF Len(args) < 2 THEN usage("config get requires a key")
                 ELSE handleConfigGet(cfg, objects, f, args[2])
            [] args[1] = "set" ->
                 IF Len(args) < 3 THEN usage("config set requires a key and value")
                 ELSE handleConfigSet(cfg, objects, f, args[2],
                                      joinArgs(SubSeq(args, 3, Len(args))), writeOk)
            [] OTHER -> usage("Unknown config subcommand")

\* handleGenerateCommand: provider.sendMessage succeeds or fails with the
\* network; the OpenAI and Anthropic skeletons always throw.
handleGenerateCommand(cfg, objects, f, args, provider, sendOk) ==
  IF Len(args) = 0
  THEN Handled(cfg, objects, f, 1, Error("Error", "generate command requires a prompt",
                                         Undefined, {}), "none", <<>>)
  ELSE IF provider.cls = "QwenProvider" /\ sendOk
  THEN Handled(cfg, objects, f, 0, NoError, "sendMessage", <<>>)
  ELSE Handled(cfg, objects, f, 1, Error("Error", "Error generating response",
                                         getName(provider), {}), "sendMessage", <<>>)

executeCommand(cfg, objects, f, command, args, provider, writeOk, sendOk) ==
  CASE command \in {"generate", "gen"} ->
         handleGenerateCommand(cfg, objects, f, args, provider, sendOk)
    [] command = "config" -> handleConfigCommand(cfg, objects, f, args, writeOk)
    [] OTHER -> Handled(cfg, objects, f, 1, Error("Error", "Unknown command", command, {}),
                        "none", <<>>)

\* The parsed command line.
CLIOptions(help, model, provider, command, args) ==
  [help |-> help, model |-> model, provider |-> provider, command |-> command,
   args |-> args]

\* Where main ended, and what it leaves in the process and in the file.
MainEnded(stage, handled, pv, m2p, dflt, provider) ==
  [stage |-> stage, handled |-> handled, providers |-> pv, modelToProvider |-> m2p,
   defaultProviderName |-> dflt, value |-> provider]

\* main, from the module imports on.  loadOk and writeOk say whether the
\* write of the migration and the write of the handler succeed, sendOk
\* whether the request of generate does.
mainOutcome(f, options, loadOk, writeOk, sendOk) ==
  LET L == loadConfig(f, loadOk)
      exits(code, message, arg) ==
        Handled(L.config, L.objects, L.file, code,
                IF code = 0 THEN NoError ELSE Error("Error", message, arg, {}), "none", <<>>)
      reg == registerOutcome(L.config, L.objects)
      res == resolveOutcome(L.config, L.objects, reg.providers, reg.modelToProvider,
                            IF Truthy(options.model) THEN options.model ELSE options.provider)
  IN IF options.help
     THEN MainEnded("help", exits(0, "none", Undefined), <<>>, <<>>, Undefined, NullProvider)
     ELSE IF ~validateProviderModel(options.model, options.provider)
     THEN MainEnded("validateProviderModel", exits(1, "belongs to provider", options.model),
                    <<>>, <<>>, Undefined, NullProvider)
     ELSE IF reg.threw
     THEN MainEnded("registerConfiguredProviders", exits(1, "Unknown provider", reg.name),
                    reg.providers, reg.modelToProvider, reg.defaultProviderName, NullProvider)
     ELSE IF res.status = "threw"
     THEN MainEnded("resolveProvider",
                    Handled(L.config, L.objects, L.file, 1, res.error, "none", <<>>),
                    res.providers, res.modelToProvider, reg.defaultProviderName, NullProvider)
     ELSE IF ~Truthy(options.command)
     THEN MainEnded("noCommand", exits(1, "No command specified", Undefined),
                    res.providers, res.modelToProvider, reg.defaultProviderName, res.value)
     ELSE MainEnded("executeCommand",
                    executeCommand(L.config, L.objects, L.file, options.command, options.args,
                                   res.value, writeOk, sendOk),
                    res.providers, res.modelToProvider, reg.defaultProviderName, res.value)

Main(options, loadOk, writeOk, sendOk) ==
  \E ended \in {mainOutcome(file, options, loadOk, writeOk, sendOk)} :
     /\ config' = ended.handled.config
     /\ heap' = reachable(ended.handled.objects, ended.handled.config.providers,
                          ended.providers)
     /\ file' = ended.handled.file
     /\ providers' = ended.providers
     /\ modelToProvider' = ended.modelToProvider
     /\ defaultProviderName' = ended.defaultProviderName
     /\ result' = [op |-> "main", arg |-> options, key |-> Undefined,
                   status |-> IF ended.handled.exit = 0 THEN "returned" ELSE "threw",
                   value |-> ended.value, flag |-> FALSE, error |-> ended.handled.error,
                   chosen |-> Undefined, constructed |-> 0,
                   stage |-> ended.stage, handler |-> ended.handled.handler,
                   output |-> ended.handled.output]

\* A document with one entry, as an earlier run or an editor leaves it.
KeyedFile(name, key) ==
  document([providers |-> <<<<name, boundAddress(name)>>>>,
            defaultProvider |-> Undefined, defaultModel |-> Undefined],
           boundAddress(name) :> KeyOnlyConfig(key))

CLIFilePool == {NoFile, KeyedFile("qwen", "sk-abc"), LegacyFile("sk-abc", Absent)}

CLIFlagPool ==
  {<<Undefined, Undefined>>, <<Undefined, "qwen">>, <<"gpt-4o", Undefined>>,
   <<"gpt-4o", "qwen">>}

CLICommandPool ==
  {<<Undefined, <<>>>>,
   <<"generate", <<"hello">>>>,
   <<"generate", <<>>>>,
   <<"config", <<>>>>,
   <<"config", <<"set", "qwen.apiKey", "sk-abc">>>>,
   <<"config", <<"set", "openai.apiKey", "sk-openai-key">>>>,
   <<"config", <<"set", "openai.apiKey", "sk-abc">>>>,
   <<"config", <<"set", "qwen.baseUrl", "sk-abc">>>>,
   <<"config", <<"set", "defaultProvider", "openai">>>>,
   <<"config", <<"set", "defaultModel", "gpt-4o">>>>,
   <<"config", <<"get", "qwen.apiKey">>>>,
   <<"config", <<"get", "defaultProvider">>>>,
   <<"nosuch", <<>>>>}

CLIOptionsPool ==
  {CLIOptions(FALSE, fl[1], fl[2], c[1], c[2]) : fl \in CLIFlagPool, c \in CLICommandPool}
  \cup {CLIOptions(TRUE, Undefined, Undefined, Undefined, <<>>)}

CLIPutFileStep == \E f \in CLIFilePool : PutFile(f)

\* A write or a request fails or succeeds where the run makes one: the
\* migration of a legacy document, the save of a config command, the
\* request of a generate command.
MainStep ==
  \E options \in CLIOptionsPool :
    \E loadOk \in IF file.kind = "legacy" THEN BOOLEAN ELSE {TRUE} :
      \E writeOk \in IF options.command = "config" THEN BOOLEAN ELSE {TRUE} :
        \E sendOk \in IF options.command = "generate" THEN BOOLEAN ELSE {TRUE} :
          Main(options, loadOk, writeOk, sendOk)

NextCLI ==
  \/ CLIPutFileStep
  \/ MainStep

SpecCLI == Init /\ [][NextCLI]_vars

(***************************************************************************)
(* SpecPairs: runs of main with both --model and --provider, on files that *)
(* hold keys for qwen, for openai, for both or for neither.                *)
(***************************************************************************)
PairModelPool == {"qwen-turbo", "gpt-4o", "GPT-4O", "gpt-3.5-turbo", "claude-3-haiku", "nosuch"}

PairProviderPool == {"qwen", "QWEN", "openai", "anthropic"}

PairOptionsPool ==
  {CLIOptions(FALSE, m, p, "generate", <<"hello">>) :
     m \in PairModelPool, p \in PairProviderPool}

\* A document with keys for qwen and openai, as the Configuration Store
\* writes it.
BothKeyedFile(qwenKey, openaiKey) ==
  document([providers |-> <<<<"qwen", boundAddress("qwen")>>,
                            <<"openai", boundAddress("openai")>>>>,
            defaultProvider |-> Undefined, defaultModel |-> Undefined],
           (boundAddress("qwen") :> KeyOnlyConfig(qwenKey))
             @@ (boundAddress("openai") :> KeyOnlyConfig(openaiKey)))

PairFilePool ==
  {NoFile, KeyedFile("qwen", "sk-abc"), KeyedFile("openai", "sk-openai-key"),
   BothKeyedFile("sk-abc", "sk-openai-key")}

PairSetupStep == \E f \in PairFilePool : PutFile(f)

PairRunStep ==
  \E options \in PairOptionsPool, sendOk \in BOOLEAN : Main(options, TRUE, TRUE, sendOk)

NextPairs ==
  \/ PairSetupStep
  \/ PairRunStep

SpecPairs == Init /\ [][NextPairs]_vars

\* main was run with both --model and --provider.
pairRun(r) ==
  r.op = "main" /\ ~r.arg.help /\ Truthy(r.arg.model) /\ Truthy(r.arg.provider)

\* C37: validateProviderModel rejects every pair --model M --provider P in
\* which the resolver's table maps M to a provider other than P, and when it
\* accepts the pair the provider main resolves is P.
C37_AcceptedPairResolvesP ==
  [][pairRun(result') =>
       /\ (/\ Truthy(tableLookup(toLowerCase(result'.arg.model)))
           /\ tableLookup(toLowerCase(result'.arg.model)) # toLowerCase(result'.arg.provider))
            => result'.stage = "validateProviderModel"
       /\ result'.value # NullProvider =>
            getName(result'.value) = toLowerCase(result'.arg.provider)]_vars

\* The same for the models validateProviderModel has in its own table.
C37_ListedModelResolvesP ==
  [][(pairRun(result')
        /\ toLowerCase(result'.arg.model) \in DOMAIN CLI_MODEL_TO_PROVIDER) =>
       /\ (tableLookup(toLowerCase(result'.arg.model)) # toLowerCase(result'.arg.provider))
            => result'.stage = "validateProviderModel"
       /\ result'.value # NullProvider =>
            getName(result'.value) = toLowerCase(result'.arg.provider)]_vars

(***************************************************************************)
(* SpecMask: runs of 'config get', on files that hold keys of several      *)
(* lengths.                                                                *)
(***************************************************************************)
\* Keys of 6, 11, 13 and 17 characters.
MaskKeyPool == {"sk-abc", "sk-qwen-key", "sk-openai-key", "sk-ant-test-key-1"}

MaskFilePool ==
  {NoFile}
  \cup {KeyedFile(n, k) : n \in {"qwen", "openai"}, k \in MaskKeyPool}
  \cup {BothKeyedFile(k, k) : k \in MaskKeyPool}

MaskOptionsPool ==
  {CLIOptions(FALSE, Undefined, p, "config", <<"get", key>>) :
     p \in {Undefined, "qwen", "openai"},
     key \in {"qwen.apiKey", "openai.apiKey", "defaultProvider"}}

MaskFileStep == \E f \in MaskFilePool : PutFile(f)

MaskGetStep == \E options \in MaskOptionsPool : Main(options, TRUE, TRUE, TRUE)

NextMask ==
  \/ MaskFileStep
  \/ MaskGetStep

SpecMask == Init /\ [][NextMask]_vars

\* s is the beginning of t.
isPrefix(s, t) == Len(s) <= Len(t) /\ SubSeq(t, 1, Len(s)) = s

Ellipsis == <<".", ".", ".">>

\* The run printed the stored key of a provider, masked: 'config get
\* <provider>.apiKey' ran to its end and the provider has a key.
printedKey(r, f) ==
  /\ r.op = "main" /\ r.status = "returned" /\ r.stage = "executeCommand"
  /\ r.arg.command = "config" /\ Len(r.arg.args) = 2 /\ r.arg.args[1] = "get"
  /\ includes(r.arg.args[2], ".")
  /\ split(r.arg.args[2], ".", 2)[2] = "apiKey"
  /\ Truthy(persistedKey(f, split(r.arg.args[2], ".", 2)[1]))

storedKey(r, f) == chars(persistedKey(f, split(r.arg.args[2], ".", 2)[1]))

\* C38: 'config get <provider>.apiKey' never prints the stored key in full:
\* the masked text shows fewer characters of the key than the key has, and
\* does not begin with the whole key.
C38_MaskHidesPartOfKey ==
  [][printedKey(result', file) =>
       /\ Len(result'.output) - Len(Ellipsis) < Len(storedKey(result', file))
       /\ ~isPrefix(storedKey(result', file), result'.output)]_vars

\* The same for the stored keys of more than 8 + 4 characters.
C38_LongKeyIsMasked ==
  [][(printedKey(result', file) /\ Len(storedKey(result', file)) > 8 + 4) =>
       /\ Len(result'.output) - Len(Ellipsis) < Len(storedKey(result', file))
       /\ ~isPrefix(storedKey(result', file), result'.output)]_vars

\* The command line 'config set <provider>.apiKey <well-formed key>'.
setsWellFormedKey(options) ==
  /\ ~options.help
  /\ options.model = Undefined /\ options.provider = Undefined
  /\ options.command = "config"
  /\ Len(options.args) = 3
  /\ options.args[1] = "set"
  /\ includes(options.args[2], ".")
  /\ split(options.args[2], ".", 2)[2] = "apiKey"
  /\ validateProviderKey(split(options.args[2], ".", 2)[1], options.args[3])

\* No provider has a key in the configuration a process loads from f.
noProviderHasKey(f) ==
  \A w \in BOOLEAN :
    \A n \in entryNames(loadConfig(f, w).config.providers) :
      ~Truthy(getProviderKeyOf(loadConfig(f, w).config, loadConfig(f, w).objects, n))

\* C16: run on a configuration in which no provider has a key, the command
\* line 'config set <provider>.apiKey <well-formed key>' reaches the config
\* handler and, when the write succeeds, leaves the key in the file, so that
\* the next run resolves that provider; and every run of a 'config'
\* command with consistent flags reaches the command, whether or not a
\* provider can be resolved.
C16_ConfigSetFromEmpty ==
  [][result'.op = "main" =>
       /\ (setsWellFormedKey(result'.arg) /\ noProviderHasKey(file)) =>
            /\ result'.stage = "executeCommand"
            /\ result'.handler = "setProviderKey"
            /\ (result'.status = "returned" =>
                  LET next == loadConfig(file', TRUE)
                      provider == split(result'.arg.args[2], ".", 2)[1]
                  IN /\ getProviderKeyOf(next.config, next.objects, provider)
                          = result'.arg.args[3]
                     /\ resolveOutcome(next.config, next.objects,
                                       registerOutcome(next.config, next.objects).providers,
                                       registerOutcome(next.config, next.objects).modelToProvider,
                                       provider).status = "returned")
       /\ (/\ ~result'.arg.help
           /\ result'.arg.command = "config"
           /\ validateProviderModel(result'.arg.model, result'.arg.provider)) =>
            result'.stage = "executeCommand"]_vars

(***************************************************************************)
(* QwenProvider: one request to the vendor and the normalization of its    *)
(* failures.  A message is the sequence of the parts a template literal    *)
(* puts together; an error code likewise, so that `HTTP_${status}` is      *)
(* <<"HTTP_", "4", "0", "4">> for the status 404.                          *)
(***************************************************************************)
\* The characters of the exception messages and of the texts looked for in
\* them.
MessageSpelling ==
  ("fetch failed" :> <<"f", "e", "t", "c", "h", " ", "f", "a", "i", "l", "e", "d">>) @@
  ("Failed to fetch" :> <<"F", "a", "i", "l", "e", "d", " ", "t", "o", " ", "f", "e", "t", "c", "h">>) @@
  ("network timeout" :> <<"n", "e", "t", "w", "o", "r", "k", " ", "t", "i", "m", "e", "o", "u", "t">>) @@
  ("Network request failed" :> <<"N", "e", "t", "w", "o", "r", "k", " ", "r", "e", "q", "u", "e", "s", "t", " ", "f", "a", "i", "l", "e", "d">>) @@
  ("socket hang up" :> <<"s", "o", "c", "k", "e", "t", " ", "h", "a", "n", "g", " ", "u", "p">>) @@
  ("Body is unusable" :> <<"B", "o", "d", "y", " ", "i", "s", " ", "u", "n", "u", "s", "a", "b", "l", "e">>) @@
  ("Unexpected token < in JSON at position 0" :> <<"U", "n", "e", "x", "p", "e", "c", "t", "e", "d", " ", "t", "o", "k", "e", "n", " ", "<", " ", "i", "n", " ", "J", "S", "O", "N", " ", "a", "t", " ", "p", "o", "s", "i", "t", "i", "o", "n", " ", "0">>) @@
  ("The operation was aborted" :> <<"T", "h", "e", " ", "o", "p", "e", "r", "a", "t", "i", "o", "n", " ", "w", "a", "s", " ", "a", "b", "o", "r", "t", "e", "d">>) @@
  ("Cannot read properties of null" :> <<"C", "a", "n", "n", "o", "t", " ", "r", "e", "a", "d", " ", "p", "r", "o", "p", "e", "r", "t", "i", "e", "s", " ", "o", "f", " ", "n", "u", "l", "l">>) @@
  ("terminated" :> <<"t", "e", "r", "m", "i", "n", "a", "t", "e", "d">>) @@
  ("Unexpected end of JSON input" :> <<"U", "n", "e", "x", "p", "e", "c", "t", "e", "d", " ", "e", "n", "d", " ", "o", "f", " ", "J", "S", "O", "N", " ", "i", "n", "p", "u", "t">>) @@
  ("Headers.set: \"Bearer " :> <<"H", "e", "a", "d", "e", "r", "s", ".", "s", "e", "t", ":", " ", "\"", "B", "e", "a", "r", "e", "r", " ">>) @@
  ("\" is an invalid header value." :> <<"\"", " ", "i", "s", " ", "a", "n", " ", "i", "n", "v", "a", "l", "i", "d", " ", "h", "e", "a", "d", "e", "r", " ", "v", "a", "l", "u", "e", ".">>) @@
  ("Invalid value" :> <<"I", "n", "v", "a", "l", "i", "d", " ", "v", "a", "l", "u", "e">>) @@
  ("fetch" :> <<"f", "e", "t", "c", "h">>) @@
  ("network" :> <<"n", "e", "t", "w", "o", "r", "k">>)

\* message.includes(text), for a message that is one part; a part that is
\* no text of MessageSpelling is a string of Spelling.
includesText(message, text) ==
  LET m == IF message \in DOMAIN MessageSpelling THEN MessageSpelling[message]
           ELSE chars(message)
      t == MessageSpelling[text]
  IN \E i \in 0..(Len(m) - Len(t)) : SubSeq(m, i + 1, i + Len(t)) = t

\* A thrown value: an LLMError, another Error, or a value that is no Error.
LLMError(name, message, provider, code, statusCode) ==
  [class |-> "LLMError", name |-> name, message |-> message, provider |-> provider,
   code |-> code, statusCode |-> statusCode]

AuthenticationError(message, provider, statusCode) ==
  LLMError("AuthenticationError", message, provider, <<"AUTHENTICATION_ERROR">>, statusCode)

RateLimitError(message, provider, statusCode) ==
  LLMError("RateLimitError", message, provider, <<"RATE_LIMIT_ERROR">>, statusCode)

NetworkError(message, provider, statusCode) ==
  LLMError("NetworkError", message, provider, <<"NETWORK_ERROR">>, statusCode)

ValidationError(message, provider, statusCode) ==
  LLMError("ValidationError", message, provider, <<"VALIDATION_ERROR">>, statusCode)

ProviderError(message, provider, code, statusCode) ==
  LLMError("ProviderError", message, provider, code, statusCode)

JsError(name, message) ==
  [class |-> "Error", name |-> name, message |-> <<message>>, provider |-> Undefined,
   code |-> <<>>, statusCode |-> Absent]

NonErrorValue ==
  [class |-> "value", name |-> Undefined, message |-> <<>>, provider |-> Undefined,
   code |-> <<>>, statusCode |-> Absent]

NothingThrown ==
  [class |-> "none", name |-> Undefined, message |-> <<>>, provider |-> Undefined,
   code |-> <<>>, statusCode |-> Absent]

\* A faulty variant of handleError: an LLMError is wrapped like any Error.
handleErrorWrappingAll(error) ==
  IF error.class \in {"LLMError", "Error"}
  THEN ProviderError(error.message, "qwen", <<"UNKNOWN_ERROR">>, Absent)
  ELSE ProviderError(<<"Unknown error occurred">>, "qwen", <<"UNKNOWN_ERROR">>, Absent)

handleError(error) ==
  IF error.class = "LLMError" THEN error
  ELSE IF error.class = "Error"
  THEN IF \E i \in DOMAIN error.message :
            includesText(error.message[i], "fetch") \/ includesText(error.message[i], "network")
       THEN NetworkError(<<"Network error: ">> \o error.message, "qwen", Absent)
       ELSE ProviderError(error.message, "qwen", <<"UNKNOWN_ERROR">>, Absent)
  ELSE ProviderError(<<"Unknown error occurred">>, "qwen", <<"UNKNOWN_ERROR">>, Absent)

\* What a step of a method gives: a value, or a thrown value.
Value(v) == [threw |-> FALSE, value |-> v, thrown |-> NothingThrown]

Throw(e) == [threw |-> TRUE, value |-> Undefined, thrown |-> e]

\* The runtimes: Headers.set throws a TypeError for a value that holds a
\* line feed, a carriage return or a NUL after the white space at its ends
\* is stripped; the message quotes the value on "node" and does not on
\* "browser".
Runtimes == {"node", "browser"}

HeaderWhiteSpace == {" ", "\t", "\n", "\r"}

RECURSIVE headerValueNormalize(_)
headerValueNormalize(cs) ==
  IF cs # <<>> /\ Head(cs) \in HeaderWhiteSpace THEN headerValueNormalize(Tail(cs))
  ELSE IF cs # <<>> /\ cs[Len(cs)] \in HeaderWhiteSpace
  THEN headerValueNormalize(SubSeq(cs, 1, Len(cs) - 1))
  ELSE cs

isValidHeaderValue(cs) == \A i \in DOMAIN cs : cs[i] \notin {"\n", "\r", "NUL"}

\* `Bearer ${apiKey}`
bearer(apiKey) ==
  <<"B", "e", "a", "r", "e", "r", " ">> \o (IF apiKey = Undefined THEN chars("") ELSE chars(apiKey))

\* authenticate: the headers, or what headers.set throws.  The headers
\* are a function of the lower-case names; a custom header replaces one of
\* the same name.
authenticate(cfg, runtime) ==
  IF ~isValidHeaderValue(headerValueNormalize(bearer(cfg.apiKey)))
  THEN Throw([class |-> "Error", name |-> "TypeError",
              message |-> IF runtime = "node"
                          THEN <<"Headers.set: \"Bearer ", cfg.apiKey,
                                 "\" is an invalid header value.">>
                          ELSE <<"Invalid value">>,
              provider |-> Undefined, code |-> <<>>, statusCode |-> Absent])
  ELSE Value((IF cfg.customHeaders = Absent THEN <<>> ELSE cfg.customHeaders[1])
             @@ [name \in {"authorization", "content-type"} |->
                   IF name = "authorization" THEN <<"Bearer ", cfg.apiKey>>
                   ELSE <<"application/json">>])

\* formatRequest: only the temperature of the options is ever given.
formatRequest(prompt, model, temperature) ==
  [model |-> IF Truthy(model) THEN model ELSE "qwen-turbo",
   input |-> [messages |-> <<[role |-> "user", content |-> prompt]>>],
   parameters |-> IF temperature = Absent THEN Absent
                  ELSE Some([temperature |-> temperature[1]])]

\* The call of fetch with the headers given.
fetchCall(headers, request, stream) ==
  [method |-> "POST",
   headers |-> (IF stream THEN [name \in {"accept"} |-> <<"text/event-stream">>] ELSE <<>>)
               @@ headers,
   body |-> request]

\* A faulty variant of fetchCalls: the request is sent again maxRetries
\* times.
fetchCallsRetrying(cfg, runtime, request, stream) ==
  IF authenticate(cfg, runtime).threw THEN <<>>
  ELSE [i \in 1..(1 + (IF cfg.maxRetries = Absent THEN 0 ELSE cfg.maxRetries[1])) |->
          fetchCall(authenticate(cfg, runtime).value, request, stream)]

\* The calls of fetch that makeRequest makes for a request: one, after
\* authenticate has given the headers.
fetchCalls(cfg, runtime, request, stream) ==
  IF authenticate(cfg, runtime).threw THEN <<>>
  ELSE <<fetchCall(authenticate(cfg, runtime).value, request, stream)>>

\* What fetch gives: a rejection with a thrown value, or a response with a
\* status and a body.  The body is text that is JSON (json holds the parsed
\* value) or is not (json is Absent and syntaxError is the message of the
\* SyntaxError); reread says whether text() still answers after json() has
\* failed (it rejects on a Response of fetch, whose body json() consumed);
\* body is the stream a reader reads, Absent for response.body = null: the
\* chunks of the text and the failure of the read after them, if any, which
\* is also what json() rejects with.
Rejected(thrown) == [kind |-> "rejected", thrown |-> thrown]

\* makeRequest threw before it called fetch.
Unsent(thrown) == [kind |-> "unsent", thrown |-> thrown]

Stream(chunks, failure) == [chunks |-> chunks, failure |-> failure]

Responded(status, json, syntaxError, reread, body) ==
  [kind |-> "response", status |-> status, json |-> json, syntaxError |-> syntaxError,
   reread |-> reread, body |-> body]

\* response.ok
ok(response) == response.status >= 200 /\ response.status <= 299

\* `${status}`: the decimal digits of the status.
RECURSIVE decimal(_)
decimal(n) ==
  LET digit == <<"0", "1", "2", "3", "4", "5", "6", "7", "8", "9">>[(n % 10) + 1]
  IN IF n < 10 THEN <<digit>> ELSE Append(decimal(n \div 10), digit)

\* handleHttpError: the error it resolves to, or the rejection of text().
handleHttpError(response) ==
  IF response.json = Absent /\ ~response.reread
  THEN Throw(JsError("TypeError", "Body is unusable"))
  ELSE Value(
    CASE response.status \in {401, 403} ->
           AuthenticationError(<<"Invalid or missing API key">>, "qwen", Some(response.status))
      [] response.status = 429 ->
           RateLimitError(<<"Rate limit exceeded">>, "qwen", Some(response.status))
      [] response.status = 400 ->
           ValidationError(<<"Invalid request parameters">>, "qwen", Some(response.status))
      [] response.status \in {500, 502, 503, 504} ->
           NetworkError(<<"Server error: ">> \o decimal(response.status), "qwen",
                        Some(response.status))
      [] OTHER ->
           ProviderError(<<"HTTP error: ">> \o decimal(response.status), "qwen",
                         <<"HTTP_">> \o decimal(response.status), Some(response.status)))

\* makeRequest: the response, or what it throws.  What authenticate throws
\* leaves it before the try block.
makeRequest(exchange) ==
  IF exchange.kind = "response" THEN Value(exchange)
  ELSE IF exchange.kind = "unsent" THEN Throw(exchange.thrown)
  ELSE IF exchange.thrown.class = "Error" /\ exchange.thrown.name = "AbortError"
  THEN Throw(NetworkError(<<"Request timeout">>, "qwen", Absent))
  ELSE Throw(exchange.thrown)

\* A parsed DashScopeResponse: null, or an object whose optional members
\* are output {choices?, usage?}, request_id and code.
\* The content of a message is its text as the sequence of its lines, the
\* empty string being <<>>.
JsonNull == [kind |-> "null"]

DashScopeResponse(output, request_id, code) ==
  [kind |-> "object", output |-> output, request_id |-> request_id, code |-> code]

\* output?.choices || []
choicesOf(data) ==
  IF data.output = Absent THEN <<>>
  ELSE IF data.output[1].choices = Absent THEN <<>>
  ELSE data.output[1].choices[1]

\* n || 0 for an optional count.
countOrZero(n) == IF n = Absent THEN 0 ELSE n[1]

parseResponse(data, model) ==
  IF data.kind = "null"
  THEN Throw(JsError("TypeError", "Cannot read properties of null"))
  ELSE IF Len(choicesOf(data)) = 0 \/ choicesOf(data)[1].message = Absent
  THEN Throw(ProviderError(<<"Invalid response format from DashScope API">>, "qwen",
                           <<"INVALID_RESPONSE">>, Absent))
  ELSE Value([content |-> IF choicesOf(data)[1].message[1].content = Absent THEN <<>>
                          ELSE choicesOf(data)[1].message[1].content[1],
              provider |-> "qwen",
              model |-> model,
              tokensUsed |->
                IF data.output[1].usage = Absent THEN Absent
                ELSE Some([prompt |-> countOrZero(data.output[1].usage[1].input_tokens),
                           completion |-> countOrZero(data.output[1].usage[1].output_tokens),
                           total |-> countOrZero(data.output[1].usage[1].total_tokens)]),
              finishReason |-> choicesOf(data)[1].finish_reason,
              metadata |-> [request_id |-> data.request_id, code |-> data.code]])

\* options.model || 'qwen-turbo'
modelOrDefault(model) == IF Truthy(model) THEN model ELSE "qwen-turbo"

\* The try block of sendMessage: the response it returns, or what reaches
\* the catch.
sendMessageTry(exchange, model) ==
  IF makeRequest(exchange).threw THEN makeRequest(exchange)
  ELSE IF ~ok(exchange)
  THEN IF handleHttpError(exchange).threw THEN handleHttpError(exchange)
       ELSE Throw(handleHttpError(exchange).value)
  ELSE IF exchange.body # Absent /\ exchange.body[1].failure # NothingThrown
  THEN Throw(exchange.body[1].failure)
  ELSE IF exchange.json = Absent
  THEN Throw(JsError("SyntaxError", exchange.syntaxError))
  ELSE parseResponse(exchange.json[1], modelOrDefault(model))

\* What a method gives its caller: the value, or the error it throws with
\* the value its catch block caught; yielded is what a generator yielded
\* before that.
Outcome(threw, value, thrown, caught, yielded) ==
  [threw |-> threw, value |-> value, thrown |-> thrown, caught |-> caught,
   yielded |-> yielded]

sendMessage(exchange, model) ==
  IF sendMessageTry(exchange, model).threw
  THEN Outcome(TRUE, Undefined, handleError(sendMessageTry(exchange, model).thrown),
               sendMessageTry(exchange, model).thrown, <<>>)
  ELSE Outcome(FALSE, sendMessageTry(exchange, model).value, NothingThrown, NothingThrown, <<>>)

\* The lines of a content that begin with three backquotes: a bare fence
\* and a fence that names a language.  The three backquotes are written
\* <fence>.
FenceLines == {"<fence>", "<fence>ts"}

\* text.trim() on lines that carry no spaces at their ends: the blank
\* lines at both ends go.
RECURSIVE trimLines(_)
trimLines(lines) ==
  IF lines # <<>> /\ Head(lines) = "" THEN trimLines(Tail(lines))
  ELSE IF lines # <<>> /\ lines[Len(lines)] = "" THEN trimLines(SubSeq(lines, 1, Len(lines) - 1))
  ELSE lines

\* The lines between fences, as the loop over the lines collects them.
RECURSIVE fencedLines(_, _)
fencedLines(lines, inCode) ==
  IF lines = <<>> THEN <<>>
  ELSE IF Head(lines) \in FenceLines THEN fencedLines(Tail(lines), ~inCode)
  ELSE IF inCode THEN <<Head(lines)>> \o fencedLines(Tail(lines), inCode)
  ELSE fencedLines(Tail(lines), inCode)

\* extractCodeFromResponse: the first block that the code-block pattern
\* matches (a fence, an optional word, a line break, the shortest text up
\* to the next fence), else with a language the lines between fences, else
\* the content; each trimmed.
extractCodeFromResponse(content, language) ==
  LET openers == {i \in 1..Len(content) :
                    /\ content[i] \in FenceLines
                    /\ \E j \in (i + 1)..Len(content) : content[j] \in FenceLines}
      first == CHOOSE i \in openers : \A k \in openers : i <= k
      close == CHOOSE j \in (first + 1)..Len(content) :
                 /\ content[j] \in FenceLines
                 /\ \A k \in (first + 1)..(j - 1) : content[k] \notin FenceLines
  IN IF openers # {} THEN trimLines(SubSeq(content, first + 1, close - 1))
     ELSE IF Truthy(language) /\ fencedLines(content, FALSE) # <<>>
     THEN trimLines(fencedLines(content, FALSE))
     ELSE trimLines(content)

\* The CodeContext of generateCode: each member a string or undefined.
CodeContext(filePath, language, existingCode, requirements) ==
  [filePath |-> filePath, language |-> language, existingCode |-> existingCode,
   requirements |-> requirements]

\* The prompt with the context put before it, as the parts of the template
\* literals; <fence> is the three backquotes and LF the line feed.
enhancedPrompt(prompt, context) ==
  LET withPath == IF Truthy(context.filePath)
                  THEN <<"File: ", context.filePath, "LF", "LF">> \o prompt ELSE prompt
      withLanguage == IF Truthy(context.language)
                      THEN <<"Language: ", context.language, "LF", "LF">> \o withPath
                      ELSE withPath
      withCode == IF Truthy(context.existingCode)
                  THEN <<"Existing code:", "LF", "<fence>",
                         IF Truthy(context.language) THEN context.language ELSE "",
                         "LF", context.existingCode, "LF", "<fence>", "LF", "LF">>
                       \o withLanguage
                  ELSE withLanguage
  IN IF Truthy(context.requirements)
     THEN <<"Requirements: ", context.requirements, "LF", "LF">> \o withCode
     ELSE withCode

generateCode(exchange, context) ==
  LET sent == sendMessage(exchange, "qwen-turbo")
      code == extractCodeFromResponse(sent.value.content, context.language)
  IN IF sent.threw
     THEN Outcome(TRUE, Undefined, handleError(sent.thrown), sent.thrown, <<>>)
     ELSE Outcome(FALSE,
                  [code |-> code,
                   explanation |-> Absent,
                   response |-> sent.value,
                   changes |-> IF Truthy(context.filePath)
                               THEN Some(<<[path |-> context.filePath,
                                            operation |-> IF Truthy(context.existingCode)
                                                          THEN "modify" ELSE "create",
                                            content |-> code]>>)
                               ELSE Absent],
                  NothingThrown, NothingThrown, <<>>)

\* The text a reader delivers is a sequence of characters.  LF and CR are
\* the line feed and the carriage return; a JSON text is one symbol, named
\* in JsonTexts with the value JSON.parse gives for it.
LF == "LF"

CR == "CR"

Whitespace == {" ", LF, CR}

DataPrefix == <<"d", "a", "t", "a", ":", " ">>

DoneText == <<"[", "D", "O", "N", "E", "]">>

HelloChoice == [message |-> Some([content |-> Some(<<"hello">>)]), finish_reason |-> Some("stop")]

WorldChoice == [message |-> Some([content |-> Some(<<"world">>)]), finish_reason |-> Absent]

FencedChoice ==
  [message |-> Some([content |-> Some(<<"Here is the code:", "<fence>ts", "const x = 1;",
                                        "<fence>", "">>)]),
   finish_reason |-> Some("stop")]

JsonTexts ==
  [t \in {"{hello}", "{world}", "{fenced}", "{}", "null"} |->
     CASE t = "{hello}" -> DashScopeResponse(Some([choices |-> Some(<<HelloChoice>>), usage |-> Absent]),
                                             Some("r1"), Absent)
       [] t = "{world}" -> DashScopeResponse(Some([choices |-> Some(<<WorldChoice>>), usage |-> Absent]),
                                             Some("r2"), Absent)
       [] t = "{fenced}" -> DashScopeResponse(Some([choices |-> Some(<<FencedChoice>>),
                                                     usage |-> Some([input_tokens |-> Some(3),
                                                                     output_tokens |-> Absent,
                                                                     total_tokens |-> Some(8)])]),
                                              Some("r3"), Absent)
       [] t = "{}" -> DashScopeResponse(Absent, Absent, Absent)
       [] t = "null" -> JsonNull]

\* line.trim() === ''
isBlank(line) == \A i \in DOMAIN line : line[i] \in Whitespace

\* line.startsWith('data: ')
startsWithData(line) ==
  Len(line) >= Len(DataPrefix) /\ SubSeq(line, 1, Len(DataPrefix)) = DataPrefix

\* The text without the whitespace at its ends.
RECURSIVE trimText(_)
trimText(text) ==
  IF text # <<>> /\ Head(text) \in Whitespace THEN trimText(Tail(text))
  ELSE IF text # <<>> /\ text[Len(text)] \in Whitespace THEN trimText(SubSeq(text, 1, Len(text) - 1))
  ELSE text

\* JSON.parse(data): the value of the one JSON text, whitespace around it
\* allowed; a SyntaxError for any other text.
jsonParse(data) ==
  IF Len(trimText(data)) = 1 /\ trimText(data)[1] \in DOMAIN JsonTexts
  THEN Value(JsonTexts[trimText(data)[1]])
  ELSE Throw(JsError("SyntaxError", "Unexpected token < in JSON at position 0"))

\* The consumer of the generator: it consumes to the end (after = 0), or
\* it stops on the value numbered after, by leaving its loop ("break") or
\* by an exception of its own ("throw"); both call return() on the
\* generator, which is suspended at its yield.
Consumer(after, by) == [after |-> after, by |-> by]

ConsumesAll == Consumer(0, "none")

\* The for loop of streamResponse over the complete lines: what it has
\* yielded, whether it returned on [DONE], and whether the consumer stopped
\* it.
RECURSIVE streamLines(_, _, _, _)
streamLines(lines, yielded, model, after) ==
  IF lines = <<>> THEN [returned |-> FALSE, stopped |-> FALSE, yielded |-> yielded]
  ELSE IF isBlank(Head(lines)) \/ ~startsWithData(Head(lines))
  THEN streamLines(Tail(lines), yielded, model, after)
  ELSE LET data == SubSeq(Head(lines), Len(DataPrefix) + 1, Len(Head(lines)))
       IN IF data = DoneText THEN [returned |-> TRUE, stopped |-> FALSE, yielded |-> yielded]
          ELSE IF jsonParse(data).threw THEN streamLines(Tail(lines), yielded, model, after)
          ELSE IF parseResponse(jsonParse(data).value, modelOrDefault(model)).threw
          THEN streamLines(Tail(lines), yielded, model, after)
          ELSE IF Len(yielded) + 1 = after
          THEN [returned |-> FALSE, stopped |-> TRUE,
                yielded |-> Append(yielded, parseResponse(jsonParse(data).value,
                                                          modelOrDefault(model)).value)]
          ELSE streamLines(Tail(lines),
                           Append(yielded, parseResponse(jsonParse(data).value,
                                                         modelOrDefault(model)).value),
                           model, after)

\* The while loop of streamResponse: the reads deliver the chunks in order
\* and then end the stream or, with a failure, reject.  It gives what was
\* yielded, what was thrown, the number of reads, how the loop was left
\* and the number of chunks left unread.
RECURSIVE streamReads(_, _, _, _, _, _)
streamReads(chunks, failure, buffer, yielded, model, after) ==
  IF chunks = <<>>
  THEN [threw |-> failure # NothingThrown, thrown |-> failure, yielded |-> yielded, reads |-> 1,
        exit |-> IF failure # NothingThrown THEN "error" ELSE "end", unread |-> 0]
  ELSE LET lines == splitChars(buffer \o Head(chunks), LF)
           done == streamLines(SubSeq(lines, 1, Len(lines) - 1), yielded, model, after)
           rest == streamReads(Tail(chunks), failure, lines[Len(lines)], done.yielded, model,
                               after)
       IN IF done.returned \/ done.stopped
          THEN [threw |-> FALSE, thrown |-> NothingThrown, yielded |-> done.yielded,
                reads |-> 1, exit |-> IF done.returned THEN "sentinel" ELSE "consumer",
                unread |-> Len(chunks) - 1]
          ELSE [rest EXCEPT !.reads = @ + 1]

\* The outer try block of streamResponse.  acquired says that getReader()
\* was reached, released that the inner finally ran reader.releaseLock();
\* cancelled says that the stream or the request was cancelled, which no
\* statement does.
streamResponseTry(exchange, model, consumer) ==
  IF makeRequest(exchange).threw
  THEN [threw |-> TRUE, thrown |-> makeRequest(exchange).thrown, yielded |-> <<>>,
        reads |-> 0, acquired |-> FALSE, released |-> FALSE, cancelled |-> FALSE,
        exit |-> "request", unread |-> 0]
  ELSE IF ~ok(exchange)
  THEN [threw |-> TRUE,
        thrown |-> IF handleHttpError(exchange).threw THEN handleHttpError(exchange).thrown
                   ELSE handleHttpError(exchange).value,
        yielded |-> <<>>, reads |-> 0, acquired |-> FALSE, released |-> FALSE,
        cancelled |-> FALSE, exit |-> "status", unread |-> 0]
  ELSE IF exchange.body = Absent
  THEN [threw |-> TRUE, thrown |-> NetworkError(<<"Response body is null">>, "qwen", Absent),
        yielded |-> <<>>, reads |-> 0, acquired |-> FALSE, released |-> FALSE,
        cancelled |-> FALSE, exit |-> "body", unread |-> 0]
  ELSE LET read == streamReads(exchange.body[1].chunks, exchange.body[1].failure, <<>>, <<>>,
                               model, consumer.after)
       IN [threw |-> read.threw, thrown |-> read.thrown, yielded |-> read.yielded,
           reads |-> read.reads, acquired |-> TRUE, released |-> TRUE, cancelled |-> FALSE,
           exit |-> read.exit, unread |-> read.unread]

\* streamResponse, pulled by the consumer.
streamResponse(exchange, model, consumer) ==
  LET tried == streamResponseTry(exchange, model, consumer)
  IN [threw |-> tried.threw,
      value |-> Undefined,
      thrown |-> IF tried.threw THEN handleError(tried.thrown) ELSE NothingThrown,
      caught |-> tried.thrown,
      yielded |-> tried.yielded,
      reads |-> tried.reads,
      acquired |-> tried.acquired,
      released |-> tried.released,
      cancelled |-> tried.cancelled,
      exit |-> tried.exit,
      unread |-> tried.unread]

(***************************************************************************)
(* SpecQwen: calls of sendMessage, streamResponse and generateCode, each   *)
(* on one exchange with the vendor.                                        *)
(***************************************************************************)
\* What fetch can reject with.
RejectionPool ==
  {JsError("AbortError", "The operation was aborted"),
   JsError("TypeError", "fetch failed"),
   JsError("TypeError", "Failed to fetch"),
   JsError("Error", "network timeout"),
   JsError("TypeError", "Network request failed"),
   JsError("Error", "socket hang up"),
   NonErrorValue}

ErrorStatusPool == {302, 400, 401, 403, 404, 429, 500, 501, 502, 503, 504, 599}

OkStatusPool == {200, 204}

\* Texts of an event stream, in chunks.
StreamTextPool ==
  {<<>>,
   <<DataPrefix \o <<"{hello}", LF>>, DataPrefix \o <<"{world}", LF>>,
     DataPrefix \o DoneText \o <<LF>>>>,
   <<<<"d", "a", "t">>, <<"a", ":", " ", "{hello}", LF>>>>,
   <<DataPrefix \o <<"{hello}">>>>,
   <<DataPrefix \o <<"{hello}", CR, LF>> \o DataPrefix \o DoneText \o <<CR, LF>>
       \o DataPrefix \o <<"{world}", LF>>>>,
   <<<<":", " ", "x", LF, LF>> \o DataPrefix \o <<"{}", LF>> \o DataPrefix \o <<"<", LF>>>>,
   <<DataPrefix \o DoneText \o <<LF>> \o DataPrefix \o <<"{hello}", LF>>>>}

\* What a read of the body can reject with.
ReadFailurePool ==
  {JsError("TypeError", "terminated"), JsError("Error", "network timeout")}

\* The bodies of a response: a JSON text, a text that is no JSON, no body,
\* an event stream, and a stream that breaks.
BodyPool ==
  {[json |-> Some(JsonTexts[t]), syntaxError |-> "", body |-> Some(Stream(<<<<t>>>>, NothingThrown))] :
     t \in DOMAIN JsonTexts}
  \cup {[json |-> Absent, syntaxError |-> "Unexpected token < in JSON at position 0",
          body |-> Some(Stream(text, NothingThrown))] : text \in StreamTextPool \ {<<>>}}
  \cup {[json |-> Absent, syntaxError |-> "Unexpected token < in JSON at position 0",
          body |-> Some(Stream(<<<<"<">>>>, NothingThrown))]}
  \cup {[json |-> Absent, syntaxError |-> "Unexpected end of JSON input", body |-> b] :
          b \in {Absent, Some(Stream(<<>>, NothingThrown))}}
  \cup {[json |-> Absent, syntaxError |-> "", body |-> Some(Stream(text, failure))] :
          text \in {<<>>, <<DataPrefix \o <<"{hello}", LF>>>>}, failure \in ReadFailurePool}

ErrorBodyPool ==
  {b \in BodyPool : b.body # Absent /\ b.body[1].chunks \in {<<<<"{}">>>>, <<<<"<">>>>}}

ExchangePool ==
  {Rejected(thrown) : thrown \in RejectionPool}
  \cup {Responded(status, b.json, b.syntaxError, reread, b.body) :
          status \in ErrorStatusPool, b \in ErrorBodyPool, reread \in BOOLEAN}
  \cup {Responded(status, b.json, b.syntaxError, FALSE, b.body) :
          status \in OkStatusPool, b \in BodyPool}

QwenModelPool == {Undefined, "qwen-max"}

ContextPool ==
  {CodeContext(Undefined, Undefined, Undefined, Undefined),
   CodeContext("a.ts", "ts", Undefined, Undefined),
   CodeContext("a.ts", Undefined, "x", "strict"),
   CodeContext("a.ts", "ts", "", Undefined),
   CodeContext(Undefined, "ts", "x", Undefined)}

\* A call that uses no reader.
NoTransport ==
  [reads |-> 0, acquired |-> FALSE, released |-> FALSE, cancelled |-> FALSE,
   exit |-> "none", unread |-> 0]

\* What the call meets: the exchange of its request with the vendor, or no
\* exchange when authenticate throws.
met(cfg, runtime, exchange) ==
  IF authenticate(cfg, runtime).threw THEN Unsent(authenticate(cfg, runtime).thrown)
  ELSE exchange

\* The outcome of a call of a method of the QwenProvider constructed with
\* cfg: arg is what the vendor does with a request, requests the calls of
\* fetch.
Called(op, cfg, runtime, exchange, model, context, consumer, requests, outcome) ==
  [op |-> op, arg |-> exchange, key |-> Undefined,
   status |-> IF outcome.threw THEN "threw" ELSE "returned",
   flag |-> FALSE, error |-> NoError, chosen |-> Undefined, constructed |-> 0,
   providerConfig |-> cfg, runtime |-> runtime, model |-> model, context |-> context,
   consumer |-> consumer, requests |-> requests]
  @@ outcome

PromptText == <<"hi">>

SendMessage(cfg, runtime, exchange, model) ==
  /\ result' = Called("sendMessage", cfg, runtime, exchange, model, Undefined, ConsumesAll,
                      fetchCalls(cfg, runtime, formatRequest(PromptText, model, Absent), FALSE),
                      sendMessage(met(cfg, runtime, exchange), model) @@ NoTransport)
  /\ UNCHANGED <<providers, modelToProvider, defaultProviderName, config, heap, file>>

StreamResponse(cfg, runtime, exchange, model, consumer) ==
  /\ \E ended \in {streamResponse(met(cfg, runtime, exchange), model, consumer)} :
        result' = Called("streamResponse", cfg, runtime, exchange, model, Undefined, consumer,
                         fetchCalls(cfg, runtime, formatRequest(PromptText, model, Absent),
                                    TRUE),
                         ended)
  /\ UNCHANGED <<providers, modelToProvider, defaultProviderName, config, heap, file>>

GenerateCode(cfg, runtime, exchange, context) ==
  /\ result' = Called("generateCode", cfg, runtime, exchange, Undefined, context, ConsumesAll,
                      fetchCalls(cfg, runtime,
                                 formatRequest(enhancedPrompt(PromptText, context),
                                               "qwen-turbo", Some("0.2")),
                                 FALSE),
                      generateCode(met(cfg, runtime, exchange), context) @@ NoTransport)
  /\ UNCHANGED <<providers, modelToProvider, defaultProviderName, config, heap, file>>

\* The provider of SpecQwen holds a well-formed key.
QwenConfig == KeyOnlyConfig("sk-abc")

SendMessageStep ==
  \E exchange \in ExchangePool, model \in QwenModelPool :
     SendMessage(QwenConfig, "node", exchange, model)

StreamResponseStep ==
  \E exchange \in ExchangePool, model \in QwenModelPool :
     StreamResponse(QwenConfig, "node", exchange, model, ConsumesAll)

GenerateCodeStep ==
  \E exchange \in ExchangePool, context \in ContextPool :
     GenerateCode(QwenConfig, "node", exchange, context)

NextQwen ==
  \/ SendMessageStep
  \/ StreamResponseStep
  \/ GenerateCodeStep

SpecQwen == Init /\ [][NextQwen]_vars

QwenOps == {"sendMessage", "streamResponse", "generateCode"}

\* The error the status of a non-OK response stands for: 401 and 403
\* Authentication, 429 RateLimit, 400 Validation, 500 to 599 Network, any
\* other status Provider with the code HTTP_<status>.
statusError(status) ==
  CASE status \in {401, 403} -> [name |-> "AuthenticationError", code |-> <<"AUTHENTICATION_ERROR">>]
    [] status = 429 -> [name |-> "RateLimitError", code |-> <<"RATE_LIMIT_ERROR">>]
    [] status = 400 -> [name |-> "ValidationError", code |-> <<"VALIDATION_ERROR">>]
    [] status \in 500..599 -> [name |-> "NetworkError", code |-> <<"NETWORK_ERROR">>]
    [] OTHER -> [name |-> "ProviderError", code |-> <<"HTTP_">> \o decimal(status)]

\* C17: on a non-OK response sendMessage, streamResponse and generateCode
\* throw the error that the status alone stands for (401/403
\* Authentication, 429 RateLimit, 400 Validation, 500..599 Network, else
\* Provider with code HTTP_<status>), with provider 'qwen' and the status
\* code, whatever the body is.
C17_KindFixedByStatus ==
  [][(/\ result'.op \in QwenOps
      /\ result'.arg.kind = "response"
      /\ ~ok(result'.arg)) =>
       (/\ result'.status = "threw"
        /\ result'.thrown.class = "LLMError"
        /\ result'.thrown.name = statusError(result'.arg.status).name
        /\ result'.thrown.code = statusError(result'.arg.status).code
        /\ result'.thrown.provider = "qwen"
        /\ result'.thrown.statusCode = Some(result'.arg.status))]_vars

\* C18: when the request is rejected and there is no response, the error
\* that sendMessage, streamResponse and generateCode throw is a Network
\* error, whatever the rejection says.
C18_RejectionIsNetwork ==
  [][(/\ result'.op \in QwenOps
      /\ result'.arg.kind = "rejected") =>
       (/\ result'.status = "threw"
        /\ result'.thrown.class = "LLMError"
        /\ result'.thrown.name = "NetworkError")]_vars

\* The payload of a success response is malformed: the body is no JSON, or
\* it has no first choice with a message.
malformedPayload(response) ==
  \/ response.json = Absent
  \/ response.json[1].kind = "null"
  \/ Len(choicesOf(response.json[1])) = 0
  \/ choicesOf(response.json[1])[1].message = Absent

\* C19: on a success status with a malformed payload sendMessage throws a
\* Provider error with the code INVALID_RESPONSE.
C19_MalformedIsInvalidResponse ==
  [][(/\ result'.op = "sendMessage"
      /\ result'.arg.kind = "response"
      /\ ok(result'.arg)
      /\ malformedPayload(result'.arg)) =>
       (/\ result'.status = "threw"
        /\ result'.thrown.class = "LLMError"
        /\ result'.thrown.name = "ProviderError"
        /\ result'.thrown.code = <<"INVALID_RESPONSE">>)]_vars

ErrorKinds ==
  {"AuthenticationError", "RateLimitError", "NetworkError", "ValidationError", "ProviderError"}

\* What is thrown is a normalized error of provider 'qwen' with a code.
normalized(thrown) ==
  /\ thrown.class = "LLMError"
  /\ thrown.name \in ErrorKinds
  /\ thrown.provider = "qwen"
  /\ thrown.code # <<>>

\* The exception is an Error whose message contains 'fetch' or 'network'.
namesTheNetwork(caught) ==
  /\ caught.class = "Error"
  /\ \/ includesText(caught.message[1], "fetch")
     \/ includesText(caught.message[1], "network")

\* C20 as stated: every failure of sendMessage, streamResponse and
\* generateCode is a normalized error of provider 'qwen' with a code; a
\* normalized error passes through unchanged, also from the sendMessage
\* inside generateCode, and any other exception is wrapped as a Provider
\* error with the code UNKNOWN_ERROR.
C20_OtherIsUnknownError ==
  [][(result'.op \in QwenOps /\ result'.status = "threw") =>
       (/\ normalized(result'.thrown)
        /\ result'.caught.class = "LLMError" => result'.thrown = result'.caught
        /\ result'.op = "generateCode" =>
             result'.thrown = sendMessage(result'.arg, "qwen-turbo").thrown
        /\ result'.caught.class # "LLMError" =>
             (/\ result'.thrown.name = "ProviderError"
              /\ result'.thrown.code = <<"UNKNOWN_ERROR">>))]_vars

\* C20 amended: every failure of sendMessage, streamResponse and
\* generateCode is a normalized error of provider 'qwen' with a code; a
\* normalized error passes through unchanged, also from the sendMessage
\* inside generateCode; any other exception is wrapped as a Network error
\* when it is an Error whose message contains 'fetch' or 'network', and as
\* a Provider error with the code UNKNOWN_ERROR otherwise.
C20_FailuresNormalized ==
  [][(result'.op \in QwenOps /\ result'.status = "threw") =>
       (/\ normalized(result'.thrown)
        /\ result'.caught.class = "LLMError" => result'.thrown = result'.caught
        /\ result'.op = "generateCode" =>
             result'.thrown = sendMessage(result'.arg, "qwen-turbo").thrown
        /\ (result'.caught.class # "LLMError" /\ namesTheNetwork(result'.caught)) =>
             (/\ result'.thrown.name = "NetworkError"
              /\ result'.thrown.code = <<"NETWORK_ERROR">>)
        /\ (result'.caught.class # "LLMError" /\ ~namesTheNetwork(result'.caught)) =>
             (/\ result'.thrown.name = "ProviderError"
              /\ result'.thrown.code = <<"UNKNOWN_ERROR">>))]_vars

\* A call has caught an exception that names the network and thrown it as
\* a Network error.
C20_Witness ==
  /\ result.op \in QwenOps
  /\ result.status = "threw"
  /\ result.caught.class = "Error"
  /\ namesTheNetwork(result.caught)
  /\ result.thrown.name = "NetworkError"

(***************************************************************************)
(* SpecRequests: the calls of fetch that the methods of a QwenProvider     *)
(* make, for providers constructed with keys that a header can and cannot  *)
(* carry and with several maxRetries.                                      *)
(***************************************************************************)
RequestKeyPool == {"sk-abc", "sk-qwen-key", "sk-a\nb", "sk-c\nd"}

MaxRetriesPool == {Absent, Some(0), Some(3)}

RequestConfigPool ==
  {[KeyOnlyConfig(key) EXCEPT !.maxRetries = maxRetries] :
     key \in RequestKeyPool, maxRetries \in MaxRetriesPool}

\* A success, two HTTP error statuses, a timeout and a transport failure.
RequestExchangePool ==
  {Responded(200, Some(JsonTexts["{hello}"]), "", FALSE,
             Some(Stream(<<<<"{hello}">>>>, NothingThrown))),
   Responded(500, Some(JsonTexts["{}"]), "", FALSE, Some(Stream(<<<<"{}">>>>, NothingThrown))),
   Responded(401, Some(JsonTexts["{}"]), "", FALSE, Some(Stream(<<<<"{}">>>>, NothingThrown))),
   Rejected(JsError("AbortError", "The operation was aborted")),
   Rejected(JsError("TypeError", "fetch failed"))}

RequestSendMessageStep ==
  \E cfg \in RequestConfigPool, runtime \in Runtimes, exchange \in RequestExchangePool :
     SendMessage(cfg, runtime, exchange, Undefined)

RequestStreamResponseStep ==
  \E cfg \in RequestConfigPool, runtime \in Runtimes, exchange \in RequestExchangePool :
     StreamResponse(cfg, runtime, exchange, Undefined, ConsumesAll)

RequestGenerateCodeStep ==
  \E cfg \in RequestConfigPool, runtime \in Runtimes, exchange \in RequestExchangePool :
     GenerateCode(cfg, runtime, exchange, CodeContext("a.ts", "ts", "x", Undefined))

NextRequests ==
  \/ RequestSendMessageStep
  \/ RequestStreamResponseStep
  \/ RequestGenerateCodeStep

SpecRequests == Init /\ [][NextRequests]_vars

\* C21: a call of sendMessage, streamResponse or generateCode makes at most
\* one call of fetch, whatever the outcome and whatever maxRetries the
\* provider was constructed with; it makes one unless authenticate threw.
C21_AtMostOneRequest ==
  [][result'.op \in QwenOps =>
       (/\ Len(result'.requests) <= 1
        /\ Len(result'.requests) = 0 <=>
             authenticate(result'.providerConfig, result'.runtime).threw)]_vars

\* A call of a provider with maxRetries 3 has met a transport failure and
\* has made one request.
C21_Witness ==
  /\ result.op \in QwenOps
  /\ result.providerConfig.maxRetries = Some(3)
  /\ result.arg.kind = "rejected"
  /\ result.status = "threw"
  /\ Len(result.requests) = 1

(***************************************************************************)
(* SpecStream: streamResponse on the streams of a vendor, pulled by        *)
(* consumers that read to the end or stop early.                           *)
(***************************************************************************)
\* The texts of StreamTextPool, a text with malformed lines among valid
\* ones, cut in the middle of a line, and a text that goes on after the
\* sentinel.
StreamPool ==
  StreamTextPool
  \cup {<<DataPrefix \o <<"{hello}", LF>> \o DataPrefix \o <<"<", LF, "d", "a">>,
          <<"t", "a", ":", " ", "{}", LF>> \o DataPrefix \o <<"{world}", LF>>>>,
        <<DataPrefix \o <<"{hello}", LF>> \o DataPrefix \o DoneText \o <<LF>>,
          DataPrefix \o <<"{world}", LF>>>>}

ConsumerPool ==
  {ConsumesAll, Consumer(1, "break"), Consumer(1, "throw"), Consumer(2, "break")}

StreamExchangePool ==
  {Responded(200, Absent, "Unexpected token < in JSON at position 0", FALSE,
             Some(Stream(text, failure))) :
     text \in StreamPool, failure \in {NothingThrown} \cup ReadFailurePool}
  \cup {Responded(200, Absent, "Unexpected end of JSON input", FALSE, Absent)}

StreamStep ==
  \E exchange \in StreamExchangePool, model \in QwenModelPool, consumer \in ConsumerPool :
     StreamResponse(QwenConfig, "node", exchange, model, consumer)

NextStream == StreamStep

SpecStream == Init /\ [][NextStream]_vars

\* The text of a stream: its chunks put together.
RECURSIVE streamText(_)
streamText(chunks) ==
  IF chunks = <<>> THEN <<>> ELSE Head(chunks) \o streamText(Tail(chunks))

\* The line is the sentinel: data: [DONE].
sentinelLine(line) ==
  startsWithData(line) /\ SubSeq(line, Len(DataPrefix) + 1, Len(line)) = DoneText

\* The line is a valid data line: it has the prefix and its data is JSON
\* with a first choice that has a message.
validDataLine(line, model) ==
  /\ ~isBlank(line)
  /\ startsWithData(line)
  /\ ~jsonParse(SubSeq(line, Len(DataPrefix) + 1, Len(line))).threw
  /\ ~parseResponse(jsonParse(SubSeq(line, Len(DataPrefix) + 1, Len(line))).value,
                    modelOrDefault(model)).threw

\* The responses of the valid data lines that precede the sentinel or the
\* end of the lines, in order.
RECURSIVE responsesOf(_, _)
responsesOf(lines, model) ==
  IF lines = <<>> THEN <<>>
  ELSE IF sentinelLine(Head(lines)) THEN <<>>
  ELSE IF validDataLine(Head(lines), model)
  THEN <<parseResponse(jsonParse(SubSeq(Head(lines), Len(DataPrefix) + 1,
                                        Len(Head(lines)))).value,
                       modelOrDefault(model)).value>>
       \o responsesOf(Tail(lines), model)
  ELSE responsesOf(Tail(lines), model)

\* C22: on a stream that ends without a failure, streamResponse consumed
\* to the end raises nothing and yields, in order, one response for every
\* valid data line before the end of the stream or the [DONE] sentinel;
\* the other lines are skipped.
C22_OnePerValidLine ==
  [][(/\ result'.op = "streamResponse"
      /\ result'.arg.kind = "response"
      /\ ok(result'.arg)
      /\ result'.arg.body # Absent
      /\ result'.arg.body[1].failure = NothingThrown
      /\ result'.consumer = ConsumesAll) =>
       (/\ result'.status = "returned"
        /\ result'.yielded =
             responsesOf(splitChars(streamText(result'.arg.body[1].chunks), LF),
                         result'.model))]_vars

\* The ways the transport can hand over a text in one or two reads.
readsOf(text) ==
  {<<text>>} \cup {<<SubSeq(text, 1, i), SubSeq(text, i + 1, Len(text))>> : i \in 1..(Len(text) - 1)}

\* What streamResponse, consumed to the end, yields for the call when the
\* transport hands the text over as chunks.
yieldedFor(call, chunks) ==
  streamResponse([call.arg EXCEPT !.body = Some(Stream(chunks, NothingThrown))],
                 call.model, ConsumesAll).yielded

\* The stream of the call ended without a failure and was consumed to the
\* end.
streamedToEnd(call) ==
  /\ call.op = "streamResponse"
  /\ call.arg.kind = "response"
  /\ ok(call.arg)
  /\ call.arg.body # Absent
  /\ call.arg.body[1].failure = NothingThrown
  /\ call.consumer = ConsumesAll

\* The last line of the text, when no line feed ends it.
unterminatedLine(text) ==
  LET lines == splitChars(text, LF) IN lines[Len(lines)]

\* No line before the last is the sentinel.
sentinelBeforeLast(text) ==
  LET lines == splitChars(text, LF)
  IN \E i \in 1..(Len(lines) - 1) : sentinelLine(lines[i])

C35_ReadsDoNotMatter ==
  [][streamedToEnd(result') =>
       \A chunks \in readsOf(streamText(result'.arg.body[1].chunks)) :
          yieldedFor(result', chunks) = result'.yielded]_vars

\* The transport of a call is closed: the reader has seen the end of the
\* stream or its failure, or the call has cancelled the stream.
transportClosed(call) == call.exit \in {"end", "error"} \/ call.cancelled

\* C23: however streamResponse is left once it has acquired the reader (end
\* of stream, [DONE], the consumer stopping early or raising, a read
\* error), the reader is released and the transport is closed, and nothing
\* is yielded after the sentinel.
C23_ReleasedAndClosed ==
  [][(result'.op = "streamResponse" /\ result'.acquired) =>
       (/\ result'.released
        /\ transportClosed(result')
        /\ isPrefix(result'.yielded,
                    responsesOf(splitChars(streamText(result'.arg.body[1].chunks), LF),
                                result'.model)))]_vars

\* C24: a generateCode that succeeds returns the response that sendMessage
\* gave and the code extracted from it; with a filePath in the context its
\* changes are one FileChange with that path, the extracted code as
\* content and the operation 'modify' if the context supplies existingCode
\* and 'create' otherwise; without a filePath it has no changes.
C24_ChangesFollowContext ==
  [][(result'.op = "generateCode" /\ result'.status = "returned") =>
       (/\ result'.value.response = parseResponse(result'.arg.json[1], "qwen-turbo").value
        /\ result'.value.code = extractCodeFromResponse(result'.value.response.content,
                                                        result'.context.language)
        /\ result'.value.changes =
             IF result'.context.filePath # Undefined
             THEN Some(<<[path |-> result'.context.filePath,
                          operation |-> IF result'.context.existingCode # Undefined
                                        THEN "modify" ELSE "create",
                          content |-> result'.value.code]>>)
             ELSE Absent)]_vars

\* What the method op throws, for the provider and the inputs given.
thrownBy(op, cfg, runtime, exchange, model, context, consumer) ==
  CASE op = "sendMessage" -> sendMessage(met(cfg, runtime, exchange), model).thrown
    [] op = "streamResponse" ->
         streamResponse(met(cfg, runtime, exchange), model, consumer).thrown
    [] op = "generateCode" -> generateCode(met(cfg, runtime, exchange), context).thrown

\* C25: the errors of a provider operation do not tell the API key: the
\* same call on a provider that differs only in its key, the two keys
\* being both well-formed or both not, raises an error of the same kind
\* and with the same message, or raises none as well.
C25_ErrorsHideKey ==
  [][result'.op \in QwenOps =>
       \A key \in RequestKeyPool :
          QwenValidateConfig([result'.providerConfig EXCEPT !.apiKey = key])
            = QwenValidateConfig(result'.providerConfig) =>
          LET other == thrownBy(result'.op, [result'.providerConfig EXCEPT !.apiKey = key],
                                result'.runtime, result'.arg, result'.model, result'.context,
                                result'.consumer)
          IN /\ other.name = result'.thrown.name
             /\ other.message = result'.thrown.message]_vars

(***************************************************************************)
(* SpecStubs: the skeleton providers OpenAIProvider and AnthropicProvider, *)
(* constructed with any configuration and called.                          *)
(***************************************************************************)
StubClasses == {"OpenAIProvider", "AnthropicProvider"}

\* new OpenAIProvider(cfg), new AnthropicProvider(cfg): the constructor
\* stores the configuration.
newStub(cls, cfg) ==
  Value([cls |-> cls, name |-> IF cls = "OpenAIProvider" THEN "openai" ELSE "anthropic",
         config |-> cfg])

\* A faulty variant of notImplemented: the error names the provider qwen.
notImplementedNamingQwen(stub) ==
  Throw(ProviderError(<<"Provider is not yet fully implemented. This is a skeleton.">>,
                      "qwen", <<"NOT_IMPLEMENTED">>, Absent))

\* The body of sendMessage, streamResponse and generateCode of a skeleton.
notImplemented(stub) ==
  Throw(ProviderError(<<IF stub.cls = "OpenAIProvider"
                        THEN "OpenAI provider is not yet fully implemented. This is a skeleton."
                        ELSE "Anthropic provider is not yet fully implemented. This is a skeleton.">>,
                      getName(stub), <<"NOT_IMPLEMENTED">>, Absent))

StubKeyPool == {Undefined, "", "sk-abc", "sk abc", "sk-openai-key", "sk-ant-test-key-1"}

StubConfigPool ==
  {[KeyOnlyConfig(key) EXCEPT !.maxRetries = maxRetries] :
     key \in StubKeyPool, maxRetries \in MaxRetriesPool}

\* The constructor alone.
NewStub(cls, cfg) ==
  /\ result' = [op |-> "new", cls |-> cls, providerConfig |-> cfg,
                status |-> IF newStub(cls, cfg).threw THEN "threw" ELSE "returned",
                value |-> newStub(cls, cfg).value, thrown |-> newStub(cls, cfg).thrown,
                requests |-> <<>>]
  /\ UNCHANGED <<providers, modelToProvider, defaultProviderName, config, heap, file>>

\* A method of a skeleton constructed with cfg; streamResponse is pulled
\* once.
StubCall(cls, cfg, op) ==
  /\ ~newStub(cls, cfg).threw
  /\ result' = [op |-> op, cls |-> cls, providerConfig |-> cfg,
                status |-> IF notImplemented(newStub(cls, cfg).value).threw
                           THEN "threw" ELSE "returned",
                value |-> notImplemented(newStub(cls, cfg).value).value,
                thrown |-> notImplemented(newStub(cls, cfg).value).thrown,
                requests |-> <<>>]
  /\ UNCHANGED <<providers, modelToProvider, defaultProviderName, config, heap, file>>

NewStubStep == \E cls \in StubClasses, cfg \in StubConfigPool : NewStub(cls, cfg)

StubCallStep ==
  \E cls \in StubClasses, cfg \in StubConfigPool, op \in QwenOps : StubCall(cls, cfg, op)

NextStubs ==
  \/ NewStubStep
  \/ StubCallStep

SpecStubs == Init /\ [][NextStubs]_vars

====
